---------------------------- MODULE Spec2Model ----------------------------
(***************************************************************************)
(* A model of the mseed3 crate: the miniSEED3 record codec (fixed header,  *)
(* identifier, extra headers, payload, CRC32C) and the Steim-1 codec.      *)
(*                                                                         *)
(* Representation of machine integers.  TLC's integers are 32-bit signed,  *)
(* so a u32 is kept as the pair <<hi, lo>> of its two 16-bit halves and    *)
(* every u32 operation is written on the halves, wrapping modulo 2^32.     *)
(* An i32, u16, u8, i16 or i8 is a plain integer in its range.  A byte     *)
(* string is a sequence over 0..255.  An f32 is kept as its IEEE bit        *)
(* pattern, a u32; an f64 as the pair <<high u32, low u32>> of its bit     *)
(* pattern (from_le_bytes / to_le_bytes move the bit pattern unchanged).   *)
(***************************************************************************)
EXTENDS Integers, Sequences, FiniteSets, TLC

VARIABLES
    pc,           \* position of the scenario that is running
    samples,      \* steim: the i32 input of encode
    frames,       \* steim: the maximum frame count given to encode
    frame_block,  \* steim: the result of encode
    rt_data,      \* steim: the result of decode on the encoded bytes
    declared,     \* steim: the sample count given to decode with a byte slice
    by_four,      \* steim: the ByFours iterator over the differences
    chunk,        \* steim: what the last call of by_four.next() returned
    rec,          \* record: the record in memory (MSeed3Record or Unparsed)
    out,          \* record: the bytes the writer put in the sink
    ret,          \* record: the value write_to returned
    stream,       \* record: the bytes the reader is positioned on
    rd,           \* record: the result of from_reader on stream
    build,        \* the build profile the program was compiled with
    instant       \* header: the DateTime<Utc> given to set_start_from_utc

vars == <<pc, samples, frames, frame_block, rt_data, declared, by_four, chunk,
         rec, out, ret, stream, rd, build, instant>>

steimVars  == <<samples, frames, frame_block, rt_data, declared, by_four, chunk>>
recordVars == <<rec, out, ret, stream, rd>>

NoValue == [kind |-> "None"]
Some(x) == [kind |-> "Some", v |-> x]

(***************************************************************************)
(* Bytes and fixed-width integers                                          *)
(***************************************************************************)
Pow2(n) == 2 ^ n

Repeat(b, n) == [i \in 1..n |-> b]

Min(a, b) == IF a < b THEN a ELSE b

\* the first n elements of s, or all of s when it is shorter (Read::take)
Take(s, n) == SubSeq(s, 1, Min(n, Len(s)))
\* s without its first n elements
Drop(s, n) == SubSeq(s, Min(n, Len(s)) + 1, Len(s))

\* a u32 from a natural number below 2^31
U32(n) == <<n \div 65536, n % 65536>>
\* a <= b for two u32 values
U32LessEq(a, b) == a[1] < b[1] \/ (a[1] = b[1] /\ a[2] <= b[2])
U32Zero == <<0, 0>>
\* min(x, n) for a u32 x and a small natural n (Read::take on a short reader)
U32Min(x, n) == IF x[1] > 0 THEN n ELSE Min(x[2], n)

\* x + y modulo 2^32
U32Add(x, y) ==
    LET lo == x[2] + y[2]
        hi == x[1] + y[1] + (lo \div 65536)
    IN  <<hi % 65536, lo % 65536>>

\* k * x modulo 2^32, for a small k
U32Mul(k, x) ==
    LET lo == k * x[2]
        hi == k * x[1] + (lo \div 65536)
    IN  <<hi % 65536, lo % 65536>>
U32MulOverflows(k, x) ==
    k * x[1] + ((k * x[2]) \div 65536) >= 65536

\* (v << s) for v in 0..3 and s in 0..30
U32Shl(v, s) ==
    IF s >= 16 THEN <<(v * Pow2(s - 16)) % 65536, 0>>
    ELSE <<(v * Pow2(s)) \div 65536, (v * Pow2(s)) % 65536>>
\* (x >> s) & 0x03 for an even s in 0..30
U32ShrAnd3(x, s) ==
    IF s >= 16 THEN (x[1] \div Pow2(s - 16)) % 4
    ELSE (x[2] \div Pow2(s)) % 4

\* usize as u8, usize as u16, usize as u32 (for lengths below 2^31)
AsU8(n)  == n % 256
AsU16(n) == n % 65536
AsU32(n) == U32(n)

\* u8 as i8, u16 as i16
AsI8(b)  == IF b >= 128 THEN b - 256 ELSE b
AsI16(w) == IF w >= 32768 THEN w - 65536 ELSE w
\* two's complement image of a signed value in 8 and 16 bits
I8Bits(v)  == v % 256
I16Bits(v) == v % 65536

\* u32::from_be_bytes(v.to_be_bytes()) for an i32 v: the two's complement image
I32ToU32(v) == <<(v \div 65536) % 65536, v % 65536>>
\* i32::from_be_bytes(w.to_be_bytes()) for a u32 w
U32ToI32(w) ==
    IF w[1] >= 32768 THEN (w[1] - 65536) * 65536 + w[2]
    ELSE w[1] * 65536 + w[2]
\* wrapping i32 arithmetic (a release build; the inputs used stay in range)
I32Wrap(n) == U32ToI32(I32ToU32(n))

\* little- and big-endian images
LE16(w) == <<w % 256, w \div 256>>
U16FromLE(b) == b[1] + 256 * b[2]
BE16(w) == <<w \div 256, w % 256>>
U16FromBE(b) == 256 * b[1] + b[2]
LE32(x) == LE16(x[2]) \o LE16(x[1])
U32FromLE(b) == <<U16FromLE(<<b[3], b[4]>>), U16FromLE(<<b[1], b[2]>>)>>
BE32(x) == BE16(x[1]) \o BE16(x[2])
U32FromBE(b) == <<U16FromBE(<<b[1], b[2]>>), U16FromBE(<<b[3], b[4]>>)>>
\* f32::to_le_bytes, f64::to_le_bytes and f64::from_le_bytes on bit patterns
F32LE(x) == LE32(x)
\* the two 32-bit halves written most significant first
F64LE_halves_swapped(x) == LE32(x[1]) \o LE32(x[2])
F64LE(x) == LE32(x[2]) \o LE32(x[1])
F64FromLE(b) == <<U32FromLE(SubSeq(b, 5, 8)), U32FromLE(SubSeq(b, 1, 4))>>

(***************************************************************************)
(* CRC32C (Castagnoli), reflected, init and xorout 0xFFFFFFFF              *)
(***************************************************************************)
XorBit(a, b) == (a + b) % 2

\* exclusive or of two 4-bit values
XorNib ==
    [a \in 0..15 |-> [b \in 0..15 |->
        XorBit(a % 2, b % 2)
        + 2 * XorBit((a \div 2) % 2, (b \div 2) % 2)
        + 4 * XorBit((a \div 4) % 2, (b \div 4) % 2)
        + 8 * XorBit(a \div 8, b \div 8)]]

Xor8(a, b) == 16 * XorNib[a \div 16][b \div 16] + XorNib[a % 16][b % 16]
Xor16(a, b) == 256 * Xor8(a \div 256, b \div 256) + Xor8(a % 256, b % 256)
Xor32(x, y) == <<Xor16(x[1], y[1]), Xor16(x[2], y[2])>>

\* the reflected Castagnoli polynomial 0x82F63B78
CrcPoly == <<33526, 15224>>
AllOnes == <<65535, 65535>>

U32Shr1(x) == <<x[1] \div 2, (x[2] \div 2) + 32768 * (x[1] % 2)>>
U32Shr8(x) == <<x[1] \div 256, (x[1] % 256) * 256 + (x[2] \div 256)>>

RECURSIVE CrcTableEntry(_, _)
CrcTableEntry(c, n) ==
    IF n = 0 THEN c
    ELSE CrcTableEntry(IF c[2] % 2 = 1 THEN Xor32(U32Shr1(c), CrcPoly)
                       ELSE U32Shr1(c), n - 1)

CrcTable == [i \in 0..255 |-> CrcTableEntry(<<0, i>>, 8)]

\* one table step: the running value after one more byte
CrcStep(c, byte) == Xor32(CrcTable[Xor8(c[2] % 256, byte)], U32Shr8(c))

\* Digest::update over b[lo..hi], one table step per byte in order; the range
\* is halved so that the nesting stays shallow on long inputs, and the test on
\* c makes TLC evaluate the running value before it goes on
RECURSIVE CrcUpdateRange(_, _, _, _)
CrcUpdateRange(c, b, lo, hi) ==
    IF lo > hi \/ c[1] < 0 THEN c
    ELSE IF lo = hi THEN CrcStep(c, b[lo])
    ELSE LET mid == (lo + hi) \div 2
         IN  CrcUpdateRange(CrcUpdateRange(c, b, lo, mid), b, mid + 1, hi)

digest_new == AllOnes
digest_update(c, b) == CrcUpdateRange(c, b, 1, Len(b))
digest_finalize(c) == Xor32(c, AllOnes)

\* CASTAGNOLI.checksum(bytes)
checksum(b) == digest_finalize(digest_update(digest_new, b))


(***************************************************************************)
(* Steim-1: frames and frame blocks (steim_frame_block.rs)                 *)
(***************************************************************************)
Panic == [kind |-> "Panic"]
Err(e) == [kind |-> "Err", err |-> e]

SteimFrame_new == [nibbles |-> U32Zero, words |-> [i \in 1..15 |-> U32Zero]]

\* words[idx] = word comes first and panics on an index outside the array
set_word(frame, word, nibble, idx) ==
    IF idx >= 15 THEN Panic
    ELSE [nibbles |-> U32Add(frame.nibbles, U32Shl(nibble, 30 - 2 * idx)),
          words   |-> [frame.words EXCEPT ![idx + 1] = word]]

SteimFrameBlock_new(steim_version) ==
    [kind |-> "Ok", num_samples |-> 0, steim_version |-> steim_version,
     steim_frame |-> <<>>]

RECURSIVE WordsBytes(_, _)
WordsBytes(words, i) ==
    IF i > 15 THEN <<>> ELSE BE32(words[i]) \o WordsBytes(words, i + 1)

RECURSIVE FramesBytes(_, _)
FramesBytes(fs, i) ==
    IF i > Len(fs) THEN <<>>
    ELSE BE32(fs[i].nibbles) \o WordsBytes(fs[i].words, 1) \o FramesBytes(fs, i + 1)

get_encoded_data(block) == FramesBytes(block.steim_frame, 1)

\* X(N) left as it was
reverse_integration_constant_not_set(block, v) ==
    IF Len(block.steim_frame) = 0 THEN Panic ELSE block

reverse_integration_constant(block, v) ==
    IF Len(block.steim_frame) = 0 THEN Panic
    ELSE [block EXCEPT !.steim_frame[1] = set_word(@, I32ToU32(v), 0, 1)]

(***************************************************************************)
(* Steim-1: the difference packer (steim1.rs, ByFours and Steim1Word)      *)
(***************************************************************************)
ok_i8(v)  == -128 <= v /\ v <= 127
ok_i16(v) == -32768 <= v /\ v <= 32767

Four(a, b, c, d) == [kind |-> "Four", v |-> <<a, b, c, d>>]
Three(a, b, c)   == [kind |-> "Three", v |-> <<a, b, c>>]
Two(a, b)        == [kind |-> "Two", v |-> <<a, b>>]
One(a)           == [kind |-> "One", v |-> <<a>>]

\* samples.iter().scan(0, ..): the first sample, then the successive differences
RECURSIVE DiffsFrom(_, _, _)
DiffsFrom(s, state, i) ==
    IF i > Len(s) THEN <<>>
    ELSE <<I32Wrap(s[i] - state)>> \o DiffsFrom(s, s[i], i + 1)

diff_iter(s) == DiffsFrom(s, 0, 1)

ByFours_new(it) == [diff_iter |-> it, prev |-> <<>>, first |-> TRUE]

\* the while loop of next(): pull differences until four are pending
RECURSIVE ByFours_fill(_)
ByFours_fill(bf) ==
    IF Len(bf.prev) < 4 /\ Len(bf.diff_iter) > 0
    THEN ByFours_fill([bf EXCEPT !.prev = Append(@, Head(bf.diff_iter)),
                                 !.diff_iter = Tail(@)])
    ELSE bf

\* the match on prev.len() of next(), on the iterator f after the while loop
ByFours_take(f) ==
    IF Len(f.prev) = 0 THEN [item |-> NoValue, it |-> f]
    ELSE IF /\ Len(f.prev) = 4
            /\ ok_i8(f.prev[1]) /\ ok_i8(f.prev[2]) /\ ok_i8(f.prev[3]) /\ ok_i8(f.prev[4])
    THEN [item |-> Four(f.prev[1], f.prev[2], f.prev[3], f.prev[4]),
          it   |-> [f EXCEPT !.prev = <<>>]]
    ELSE IF Len(f.prev) = 3 /\ ok_i8(f.prev[1]) /\ ok_i8(f.prev[2]) /\ ok_i8(f.prev[3])
    THEN [item |-> Three(f.prev[1], f.prev[2], f.prev[3]),
          it   |-> [f EXCEPT !.prev = <<>>]]
    ELSE IF Len(f.prev) > 2 /\ ok_i16(f.prev[1]) /\ ok_i16(f.prev[2])
    THEN [item |-> Two(f.prev[1], f.prev[2]),
          it   |-> [f EXCEPT !.prev = Drop(f.prev, 2)]]
    ELSE [item |-> One(f.prev[1]), it |-> [f EXCEPT !.prev = Tail(f.prev)]]

\* ByFours::next: the item (NoValue for None) and the iterator after the call
ByFours_next(bf) ==
    IF bf.first THEN
        IF Len(bf.diff_iter) = 0
        THEN [item |-> NoValue, it |-> [bf EXCEPT !.first = FALSE]]
        ELSE [item |-> One(Head(bf.diff_iter)),
              it   |-> [bf EXCEPT !.first = FALSE, !.diff_iter = Tail(@)]]
    ELSE ByFours_take(ByFours_fill(bf))

Steim1Word_word(w) ==
    CASE w.kind = "Four"  -> <<256 * I8Bits(w.v[1]) + I8Bits(w.v[2]),
                               256 * I8Bits(w.v[3]) + I8Bits(w.v[4])>>
      [] w.kind = "Three" -> <<256 * I8Bits(w.v[1]) + I8Bits(w.v[2]),
                               256 * I8Bits(w.v[3]) + 0>>
      [] w.kind = "Two"   -> <<I16Bits(w.v[1]), I16Bits(w.v[2])>>
      [] w.kind = "One"   -> I32ToU32(w.v[1])

Steim1Word_nibble(w) ==
    CASE w.kind = "Four"  -> 1
      [] w.kind = "Three" -> 1
      [] w.kind = "Two"   -> 2
      [] w.kind = "One"   -> 3

\* add_to_frame: the frame after set_word and the next frame index
add_to_frame(w, frame, frame_idx) ==
    [frame |-> set_word(frame, Steim1Word_word(w), Steim1Word_nibble(w), frame_idx),
     frame_idx |-> frame_idx + 1]

Steim1Word_num_samples(w) ==
    CASE w.kind = "Four"  -> 4
      [] w.kind = "Three" -> 3
      [] w.kind = "Two"   -> 2
      [] w.kind = "One"   -> 1

(***************************************************************************)
(* Steim-1: encode (steim1.rs)                                             *)
(***************************************************************************)
\* the for loop over by_four inside 'outer; st is the loop's state:
\* by_four, frame, frame_idx, num_samples, first_sample, block (the frames
\* pushed so far) and the way the loop was left
RECURSIVE encode_for(_, _)

\* the end of the loop body: the test of frame_idx after the chunk was placed
encode_filled(st, max_frames) ==
    IF st.frame = Panic THEN [st EXCEPT !.exit = "panic"]
    ELSE IF st.frame_idx = 15 THEN
        IF Len(st.block) = max_frames
        THEN [st EXCEPT !.block = Append(@, st.frame), !.exit = "outer"]
        ELSE [st EXCEPT !.exit = "inner"]
    ELSE encode_for(st, max_frames)

\* one turn of the loop on the item n that by_four.next() gave: the chunk is
\* placed in the frame and counted, then frame_idx is tested
encode_chunk(st, n, max_frames) ==
    IF n.item = NoValue THEN [st EXCEPT !.by_four = n.it, !.exit = "exhausted"]
    ELSE
        LET placed ==
                IF st.first_sample THEN
                    IF n.item.kind = "One"
                    THEN [frame |-> set_word(st.frame, I32ToU32(n.item.v[1]), 0, 0),
                          frame_idx |-> st.frame_idx + 2]
                    ELSE [frame |-> Panic, frame_idx |-> st.frame_idx]
                ELSE add_to_frame(n.item, st.frame, st.frame_idx)
        IN  encode_filled([st EXCEPT !.by_four = n.it,
                                     !.frame = placed.frame,
                                     !.frame_idx = placed.frame_idx,
                                     !.first_sample = FALSE,
                                     !.num_samples = @ + Steim1Word_num_samples(n.item)],
                          max_frames)

encode_for(st, max_frames) == encode_chunk(st, ByFours_next(st.by_four), max_frames)

\* one pass of the 'outer loop body; the body ends in an unconditional break
encode_outer(st, max_frames) ==
    LET s1 == encode_for([st EXCEPT !.frame = SteimFrame_new, !.frame_idx = 0],
                         max_frames)
    IN  IF s1.exit \in {"outer", "panic"} THEN s1
        ELSE IF s1.frame_idx > 0 THEN [s1 EXCEPT !.block = Append(@, s1.frame)]
        ELSE s1

encode(s, max_frames) ==
    IF Len(s) = 0 THEN Err("Compression")
    ELSE
        LET st0 == [by_four |-> ByFours_new(diff_iter(s)), frame |-> SteimFrame_new,
                    frame_idx |-> 0, num_samples |-> 0, first_sample |-> TRUE,
                    block |-> <<>>, exit |-> "none"]
            st  == encode_outer(st0, max_frames)
            fb  == [SteimFrameBlock_new(1) EXCEPT !.steim_frame = st.block,
                                                  !.num_samples = st.num_samples]
        IN  IF st.exit = "panic" \/ Len(fb.steim_frame) = 0 \/ st.num_samples = 0
            THEN Panic
            ELSE reverse_integration_constant(fb, s[st.num_samples])

(***************************************************************************)
(* Steim-1: decode (steim1.rs)                                             *)
(***************************************************************************)
\* bytes[k] with Rust's 0-based index; the caller checks InBounds first
At(bytes, k) == bytes[k + 1]
InBounds(bytes, k) == k >= 0 /\ k < Len(bytes)
Slice(bytes, from, to) == SubSeq(bytes, from + 1, to)

\* the values one slot contributes, or Panic on an index out of bounds
extract_slot(bytes, offset, i, curr_nibble) ==
    LET offset_idx == offset + 4 * i IN
    CASE curr_nibble = 0 ->
            IF offset = 0 /\ (i = 1 \/ i = 2)
            THEN [kind |-> "Ok", v |-> <<U32ToI32(U32FromBE(Slice(bytes, offset_idx, offset_idx + 4)))>>]
            ELSE [kind |-> "Ok", v |-> <<>>]
      [] curr_nibble = 1 ->
            IF \A n \in 0..3 : InBounds(bytes, offset_idx + (i * 4) + n)
            THEN [kind |-> "Ok",
                  v |-> [n \in 1..4 |-> AsI8(At(bytes, offset_idx + (i * 4) + (n - 1)))]]
            ELSE Panic
      [] curr_nibble = 2 ->
            [kind |-> "Ok",
             v |-> [n \in 1..2 |->
                      AsI16(U16FromBE(Slice(bytes, offset_idx + 2 * (n - 1),
                                            offset_idx + 2 + 2 * (n - 1))))]]
      [] curr_nibble = 3 ->
            [kind |-> "Ok", v |-> <<U32ToI32(U32FromBE(Slice(bytes, offset_idx, offset_idx + 4)))>>]

RECURSIVE extract_from(_, _, _, _, _)
extract_from(bytes, offset, nibbles, i, temp) ==
    IF i > 15 THEN [kind |-> "Ok", v |-> temp]
    ELSE LET r == extract_slot(bytes, offset, i, U32ShrAnd3(nibbles, 32 - i * 2))
         IN  IF r = Panic THEN Panic
             ELSE extract_from(bytes, offset, nibbles, i + 1, temp \o r.v)

extract_samples(bytes, offset) ==
    extract_from(bytes, offset, U32FromBE(Slice(bytes, offset, offset + 4)), 1, <<>>)

\* the running sum of the differences of one frame
RECURSIVE Integrate(_, _, _)
Integrate(last_value, ds, i) ==
    IF i > Len(ds) THEN <<>>
    ELSE LET v == I32Wrap(last_value + ds[i])
         IN  <<v>> \o Integrate(v, ds, i + 1)

\* the loop over the frames; st holds samples, start, end, last_value
RECURSIVE decode_frames(_, _, _, _)
decode_frames(b, i, num_frames, st) ==
    IF i >= num_frames THEN st
    ELSE
        LET t == extract_samples(b, i * 64) IN
        IF t = Panic THEN Panic
        ELSE IF i = 0 THEN
            IF Len(t.v) < 2 THEN Panic
            ELSE LET more == Integrate(t.v[1], Drop(t.v, 2), 1)
                     all  == <<t.v[1]>> \o more
                 IN  decode_frames(b, i + 1, num_frames,
                        [samples |-> all, start |-> t.v[1], end |-> t.v[2],
                         last_value |-> all[Len(all)]])
        ELSE LET more == Integrate(st.last_value, t.v, 1)
                 all  == st.samples \o more
             IN  decode_frames(b, i + 1, num_frames,
                    [st EXCEPT !.samples = all,
                               !.last_value = IF Len(all) = 0 THEN @ ELSE all[Len(all)]])

decode_with_bias(b, num_samples) ==
    IF Len(b) % 64 # 0 THEN Err("Compression")
    ELSE
        LET st == decode_frames(b, 0, Len(b) \div 64,
                     [samples |-> <<>>, start |-> 0, end |-> 0, last_value |-> 0])
        IN  IF st = Panic THEN Panic
            ELSE IF Len(st.samples) # num_samples THEN Err("Compression")
            ELSE IF Len(st.samples) = 0 THEN Panic
            ELSE IF st.samples[1] # st.start THEN Panic
            ELSE IF st.samples[Len(st.samples)] # st.end THEN Panic
            ELSE [kind |-> "Ok", samples |-> st.samples]

decode(b, num_samples) == decode_with_bias(b, num_samples)

(***************************************************************************)
(* DataEncoding (data_encoding.rs)                                         *)
(***************************************************************************)
Enc(k) == [kind |-> k, val |-> 0]

from_int(val) ==
    CASE val = 0   -> Enc("TEXT")
      [] val = 1   -> Enc("INT16")
      [] val = 3   -> Enc("INT32")
      [] val = 4   -> Enc("FLOAT32")
      [] val = 5   -> Enc("FLOAT64")
      [] val = 10  -> Enc("STEIM1")
      [] val = 11  -> Enc("STEIM2")
      [] val = 19  -> Enc("STEIM3")
      [] val = 100 -> Enc("OPAQUE")
      [] OTHER     -> [kind |-> "UNKNOWN", val |-> val]

\* UNKNOWN written as code 0
value_unknown_as_zero(e) ==
    CASE e.kind = "TEXT"    -> 0
      [] e.kind = "INT16"   -> 1
      [] e.kind = "INT32"   -> 3
      [] e.kind = "FLOAT32" -> 4
      [] e.kind = "FLOAT64" -> 5
      [] e.kind = "STEIM1"  -> 10
      [] e.kind = "STEIM2"  -> 11
      [] e.kind = "STEIM3"  -> 19
      [] e.kind = "OPAQUE"  -> 100
      [] e.kind = "UNKNOWN" -> 0

value(e) ==
    CASE e.kind = "TEXT"    -> 0
      [] e.kind = "INT16"   -> 1
      [] e.kind = "INT32"   -> 3
      [] e.kind = "FLOAT32" -> 4
      [] e.kind = "FLOAT64" -> 5
      [] e.kind = "STEIM1"  -> 10
      [] e.kind = "STEIM2"  -> 11
      [] e.kind = "STEIM3"  -> 19
      [] e.kind = "OPAQUE"  -> 100
      [] e.kind = "UNKNOWN" -> e.val

(***************************************************************************)
(* The fixed header (header.rs)                                            *)
(***************************************************************************)
FIXED_HEADER_SIZE == 40
CRC_OFFSET == 28
\* 'M', 'S'
REC_IND == <<77, 83>>

raw_identifier_length(h) == h.identifier_length
raw_extra_headers_length(h) == h.extra_headers_length
raw_data_length(h) == h.data_length

recalculated_lengths(h, identifier_length, extra_headers_length, data_length, num_samples) ==
    [h EXCEPT !.identifier_length = identifier_length,
              !.extra_headers_length = extra_headers_length,
              !.data_length = data_length,
              !.num_samples = num_samples]

\* a DateTime<Utc> is held as its calendar fields; chrono keeps a leap second
\* as second 59 with a nanosecond field of 1_000_000_000 or more
set_start_from_utc_no_carry(h, start) ==
    [h EXCEPT !.nanosecond = U32(start.nanosecond % 1000000000),
              !.year = AsU16(start.year),
              !.day_of_year = AsU16(start.ordinal),
              !.hour = AsU8(start.hour),
              !.minute = AsU8(start.minute),
              !.second = AsU8(start.second)]

set_start_from_utc(h, start) ==
    [h EXCEPT !.nanosecond = U32(start.nanosecond % 1000000000),
              !.year = AsU16(start.year),
              !.day_of_year = AsU16(start.ordinal),
              !.hour = AsU8(start.hour),
              !.minute = AsU8(start.minute),
              !.second = AsU8(start.second + (start.nanosecond \div 1000000000))]

MSeed3Header_new(start, encoding, sample_rate_period, num_samples) ==
    set_start_from_utc(
        [record_indicator |-> REC_IND, format_version |-> 3, flags |-> 0,
         nanosecond |-> U32Zero, year |-> 2000, day_of_year |-> 0, hour |-> 0,
         minute |-> 0, second |-> 0, encoding |-> encoding,
         sample_rate_period |-> sample_rate_period,
         num_samples |-> AsU32(num_samples), crc |-> U32Zero,
         publication_version |-> 0, identifier_length |-> 0,
         extra_headers_length |-> 0, data_length |-> U32Zero],
        start)

Header_write_to(h) ==
    REC_IND \o <<h.format_version, h.flags>> \o LE32(h.nanosecond)
    \o LE16(h.year) \o LE16(h.day_of_year)
    \o <<h.hour, h.minute, h.second, value(h.encoding)>>
    \o F64LE(h.sample_rate_period) \o LE32(h.num_samples) \o LE32(h.crc)
    \o <<h.publication_version, h.identifier_length>>
    \o LE16(h.extra_headers_length) \o LE32(h.data_length)

get_record_size(h) ==
    U32Add(U32Add(U32Add(U32(FIXED_HEADER_SIZE), U32(h.identifier_length)),
                  U32(h.extra_headers_length)),
           h.data_length)

\* the fields read from the 40 bytes once the indicator and version are accepted
Header_fields(buffer) ==
    [record_indicator |-> REC_IND,
     format_version |-> At(buffer, 2),
     flags |-> At(buffer, 3),
     nanosecond |-> U32FromLE(Slice(buffer, 4, 8)),
     year |-> U16FromLE(Slice(buffer, 8, 10)),
     day_of_year |-> U16FromLE(Slice(buffer, 10, 12)),
     hour |-> At(buffer, 12),
     minute |-> At(buffer, 13),
     second |-> At(buffer, 14),
     encoding |-> from_int(At(buffer, 15)),
     sample_rate_period |-> F64FromLE(Slice(buffer, 16, 24)),
     num_samples |-> U32FromLE(Slice(buffer, 24, 28)),
     crc |-> U32FromLE(Slice(buffer, 28, 32)),
     publication_version |-> At(buffer, 32),
     identifier_length |-> At(buffer, 33),
     extra_headers_length |-> U16FromLE(Slice(buffer, 34, 36)),
     data_length |-> U32FromLE(Slice(buffer, 36, 40))]

\* the version test placed before the indicator test
Header_try_from_version_first(buffer) ==
    IF At(buffer, 2) # 3
    THEN [kind |-> "Err", err |-> "UnknownFormatVersion", args |-> <<At(buffer, 2)>>]
    ELSE IF At(buffer, 0) # REC_IND[1] \/ At(buffer, 1) # REC_IND[2]
    THEN [kind |-> "Err", err |-> "BadRecordIndicator",
          args |-> <<At(buffer, 0), At(buffer, 1)>>]
    ELSE [kind |-> "Ok", header |-> Header_fields(buffer)]

\* TryFrom<&[u8; FIXED_HEADER_SIZE]>
Header_try_from(buffer) ==
    IF At(buffer, 0) # REC_IND[1] \/ At(buffer, 1) # REC_IND[2]
    THEN [kind |-> "Err", err |-> "BadRecordIndicator",
          args |-> <<At(buffer, 0), At(buffer, 1)>>]
    ELSE IF At(buffer, 2) # 3
    THEN [kind |-> "Err", err |-> "UnknownFormatVersion", args |-> <<At(buffer, 2)>>]
    ELSE [kind |-> "Ok", header |-> Header_fields(buffer)]

\* TryFrom<&[u8]>: the slice is converted to an array of FIXED_HEADER_SIZE
\* bytes by try_into().unwrap(), which panics unless the lengths are equal
Header_try_from_slice(buffer) ==
    IF Len(buffer) < FIXED_HEADER_SIZE
    THEN [kind |-> "Err", err |-> "InsufficientBytes",
          args |-> <<Len(buffer), FIXED_HEADER_SIZE>>]
    ELSE IF Len(buffer) # FIXED_HEADER_SIZE THEN Panic
    ELSE Header_try_from(buffer)

(***************************************************************************)
(* UTF-8 text (String::from_utf8)                                          *)
(***************************************************************************)
IsCont(b) == b >= 128 /\ b <= 191

\* the number of continuation bytes a leading byte asks for, -1 when the
\* byte cannot lead
Utf8Width(b0) ==
    IF b0 < 128 THEN 0
    ELSE IF b0 >= 194 /\ b0 <= 223 THEN 1
    ELSE IF b0 >= 224 /\ b0 <= 239 THEN 2
    ELSE IF b0 >= 240 /\ b0 <= 244 THEN 3
    ELSE -1

\* the limits the leading byte puts on the byte after it
Utf8SecondOk(b0, b1) ==
    /\ (b0 = 224 => b1 >= 160)
    /\ (b0 = 237 => b1 <= 159)
    /\ (b0 = 240 => b1 >= 144)
    /\ (b0 = 244 => b1 <= 143)

\* String::from_utf8 succeeds: every byte that is no continuation byte leads a
\* well-formed sequence, and every continuation byte belongs to one
from_utf8_ok(b) ==
    \A i \in 1..Len(b) :
        IF IsCont(b[i])
        THEN \E k \in 1..3 :
                /\ i - k >= 1
                /\ ~IsCont(b[i - k])
                /\ Utf8Width(b[i - k]) >= k
                /\ \A j \in 1..(k - 1) : IsCont(b[i - j])
        ELSE /\ Utf8Width(b[i]) >= 0
             /\ i + Utf8Width(b[i]) <= Len(b)
             /\ \A j \in 1..Utf8Width(b[i]) : IsCont(b[i + j])
             /\ (Utf8Width(b[i]) >= 1 => Utf8SecondOk(b[i], b[i + 1]))

(***************************************************************************)
(* SourceIdentifier (fdsn_source_identifier.rs)                            *)
(***************************************************************************)
\* "FDSN:"
PREFIX == <<70, 68, 83, 78, 58>>
Underscore == 95
Dash == 45

IsUpperOrDigit(c) == (c >= 65 /\ c <= 90) \/ (c >= 48 /\ c <= 57)
\* the class [-A-Z0-9] without the dash
IsUpperDigitDash_without_dash(c) == IsUpperOrDigit(c)
IsUpperDigitDash(c) == IsUpperOrDigit(c) \/ c = Dash

\* the pieces of s from position i on, between the separator bytes
RECURSIVE SplitFrom(_, _, _)
SplitFrom(s, sep, i) ==
    LET seps == {j \in i..Len(s) : s[j] = sep} IN
    IF seps = {} THEN <<SubSeq(s, i, Len(s))>>
    ELSE LET next == CHOOSE j \in seps : \A k \in seps : j <= k
         IN  <<SubSeq(s, i, next - 1)>> \o SplitFrom(s, sep, next + 1)

AllIn(s, Ok(_)) == \A i \in 1..Len(s) : Ok(s[i])

\* PARSE_FDSN_REGEX.captures(id): no class contains '_', so a match splits the
\* text after the prefix at its five underscores
FdsnSourceIdentifier_parse(id) ==
    LET parts == SplitFrom(Drop(id, 5), Underscore, 1) IN
    IF /\ Len(id) >= 5 /\ Take(id, 5) = PREFIX
       /\ Len(parts) = 6
       /\ AllIn(parts[1], IsUpperOrDigit) /\ Len(parts[1]) >= 1 /\ Len(parts[1]) <= 8
       /\ AllIn(parts[2], IsUpperDigitDash) /\ Len(parts[2]) >= 1 /\ Len(parts[2]) <= 8
       /\ AllIn(parts[3], IsUpperDigitDash) /\ Len(parts[3]) <= 8
       /\ AllIn(parts[4], IsUpperOrDigit)
       /\ AllIn(parts[5], IsUpperOrDigit) /\ Len(parts[5]) >= 1
       /\ AllIn(parts[6], IsUpperOrDigit)
    THEN [kind |-> "Ok",
          fdsn |-> [network |-> parts[1], station |-> parts[2],
                    location |-> parts[3], band |-> parts[4],
                    source |-> parts[5], subsource |-> parts[6]]]
    ELSE [kind |-> "Err", err |-> "IdentifierParse", args |-> <<id, "all">>]

\* Display for FdsnSourceIdentifier
Fdsn_to_string(f) ==
    PREFIX \o f.network \o <<Underscore>> \o f.station \o <<Underscore>>
    \o f.location \o <<Underscore>> \o f.band \o <<Underscore>>
    \o f.source \o <<Underscore>> \o f.subsource

Fdsn_calc_len(f) ==
    AsU8(10 + Len(f.network) + Len(f.station) + Len(f.location)
         + Len(f.band) + Len(f.source) + Len(f.subsource))

Raw(s) == [kind |-> "Raw", s |-> s]
Fdsn(f) == [kind |-> "Fdsn", f |-> f]

\* From<&str>
SourceIdentifier_from(s) ==
    LET sid == FdsnSourceIdentifier_parse(s) IN
    IF sid.kind = "Ok" THEN Fdsn(sid.fdsn) ELSE Raw(s)

\* TryFrom<Vec<u8>>
SourceIdentifier_try_from(v) ==
    IF from_utf8_ok(v) THEN [kind |-> "Ok", id |-> SourceIdentifier_from(v)]
    ELSE [kind |-> "Err", err |-> "FromUtf8Error", args |-> <<>>]

SourceIdentifier_to_string(id) ==
    IF id.kind = "Raw" THEN id.s ELSE Fdsn_to_string(id.f)

SourceIdentifier_as_bytes(id) ==
    IF id.kind = "Raw" THEN id.s ELSE Fdsn_to_string(id.f)

SourceIdentifier_calc_len(id) ==
    IF id.kind = "Raw" THEN AsU8(Len(id.s)) ELSE Fdsn_calc_len(id.f)

(***************************************************************************)
(* EncodedTimeseries (encoded_timeseries.rs)                               *)
(***************************************************************************)
\* the concatenation of a sequence of byte strings
RECURSIVE FlattenFrom(_, _)
FlattenFrom(ss, i) ==
    IF i > Len(ss) THEN <<>> ELSE ss[i] \o FlattenFrom(ss, i + 1)

Flatten(ss) == FlattenFrom(ss, 1)

I16LE(el) == LE16(I16Bits(el))
\* the image with the most significant byte first
I32LE_big_endian(el) == BE32(I32ToU32(el))
I32LE(el) == LE32(I32ToU32(el))

Timeseries_write_to(d) ==
    CASE d.kind = "Int16"   -> Flatten([i \in 1..Len(d.v) |-> I16LE(d.v[i])])
      [] d.kind = "Int32"   -> Flatten([i \in 1..Len(d.v) |-> I32LE(d.v[i])])
      [] d.kind = "Float32" -> Flatten([i \in 1..Len(d.v) |-> F32LE(d.v[i])])
      [] d.kind = "Float64" -> Flatten([i \in 1..Len(d.v) |-> F64LE(d.v[i])])
      [] OTHER              -> d.v

byte_len(d) ==
    CASE d.kind = "Int16"   -> U32Mul(2, AsU32(Len(d.v)))
      [] d.kind = "Int32"   -> U32Mul(4, AsU32(Len(d.v)))
      [] d.kind = "Float32" -> U32Mul(4, AsU32(Len(d.v)))
      [] d.kind = "Float64" -> U32Mul(8, AsU32(Len(d.v)))
      [] OTHER              -> AsU32(Len(d.v))

reconcile_num_samples(d, header_num_sample) ==
    IF d.kind \in {"Int16", "Int32", "Float32", "Float64"}
    THEN AsU32(Len(d.v))
    ELSE header_num_sample

(***************************************************************************)
(* JSON values (serde_json): a number is [t |-> "num", n], a string is     *)
(* [t |-> "str", s], an object is [t |-> "obj", m] with m the sequence of  *)
(* its <<key, value>> members in key order (Map is a BTreeMap), and the    *)
(* literals are [t |-> "null"], [t |-> "true"], [t |-> "false"].           *)
(***************************************************************************)
JNum(n) == [t |-> "num", n |-> n]
JStr(str) == [t |-> "str", s |-> str]
JObj(m) == [t |-> "obj", m |-> m]
Map_new == <<>>

RECURSIVE SeqLessFrom(_, _, _)
SeqLessFrom(a, b, i) ==
    IF i > Len(b) THEN FALSE
    ELSE IF i > Len(a) THEN TRUE
    ELSE IF a[i] # b[i] THEN a[i] < b[i]
    ELSE SeqLessFrom(a, b, i + 1)

SeqLess(a, b) == SeqLessFrom(a, b, 1)

\* Map::insert: replaces the value of a key that is present
RECURSIVE Map_insert_from(_, _, _, _)
Map_insert_from(m, k, v, i) ==
    IF i > Len(m) THEN Append(m, <<k, v>>)
    ELSE IF m[i][1] = k THEN [m EXCEPT ![i] = <<k, v>>]
    ELSE IF SeqLess(k, m[i][1])
    THEN SubSeq(m, 1, i - 1) \o <<(<<k, v>>)>> \o SubSeq(m, i, Len(m))
    ELSE Map_insert_from(m, k, v, i + 1)

Map_insert(m, k, v) == Map_insert_from(m, k, v, 1)

RECURSIVE DigitsOf(_)
DigitsOf(n) == IF n < 10 THEN <<48 + n>> ELSE DigitsOf(n \div 10) \o <<48 + (n % 10)>>

\* the compact text serde_json writes: Value::to_string
RECURSIVE Json_to_string(_)
RECURSIVE Json_members(_, _)
Json_members(m, i) ==
    IF i > Len(m) THEN <<>>
    ELSE (IF i > 1 THEN <<44>> ELSE <<>>)
         \o <<34>> \o m[i][1] \o <<34, 58>> \o Json_to_string(m[i][2])
         \o Json_members(m, i + 1)
Json_to_string(v) ==
    CASE v.t = "num"   -> DigitsOf(v.n)
      [] v.t = "str"   -> <<34>> \o v.s \o <<34>>
      [] v.t = "obj"   -> <<123>> \o Json_members(v.m, 1) \o <<125>>
      [] v.t = "null"  -> <<110, 117, 108, 108>>
      [] v.t = "true"  -> <<116, 114, 117, 101>>
      [] v.t = "false" -> <<102, 97, 108, 115, 101>>

\* serde_json::from_str on the texts used here: objects, strings without
\* escapes, non-negative integers and the three literals
JFail == [ok |-> FALSE]
IsWs(c) == c \in {32, 9, 10, 13}
IsDigit(c) == c >= 48 /\ c <= 57

RECURSIVE SkipWs(_, _)
SkipWs(b, i) == IF i <= Len(b) /\ IsWs(b[i]) THEN SkipWs(b, i + 1) ELSE i

RECURSIVE ParseDigits(_, _, _)
ParseDigits(b, i, n) ==
    IF i <= Len(b) /\ IsDigit(b[i]) THEN ParseDigits(b, i + 1, 10 * n + (b[i] - 48))
    ELSE [ok |-> TRUE, v |-> JNum(n), pos |-> i]

RECURSIVE ParseChars(_, _, _)
ParseChars(b, i, acc) ==
    IF i > Len(b) \/ b[i] < 32 \/ b[i] = 92 THEN JFail
    ELSE IF b[i] = 34 THEN [ok |-> TRUE, v |-> JStr(acc), pos |-> i + 1]
    ELSE ParseChars(b, i + 1, Append(acc, b[i]))

HasAt(b, i, lit) == i + Len(lit) - 1 <= Len(b) /\ SubSeq(b, i, i + Len(lit) - 1) = lit

RECURSIVE ParseValue(_, _)
RECURSIVE ParseMembers(_, _, _)
ParseMembers(b, i, m) ==
    LET j == SkipWs(b, i) IN
    IF j > Len(b) \/ b[j] # 34 THEN JFail
    ELSE LET k == ParseChars(b, j + 1, <<>>) IN
         IF ~k.ok THEN JFail
         ELSE LET c == SkipWs(b, k.pos) IN
              IF c > Len(b) \/ b[c] # 58 THEN JFail
              ELSE LET v == ParseValue(b, c + 1) IN
                   IF ~v.ok THEN JFail
                   ELSE LET e == SkipWs(b, v.pos)
                            m1 == Map_insert(m, k.v.s, v.v)
                        IN  IF e > Len(b) THEN JFail
                            ELSE IF b[e] = 125
                            THEN [ok |-> TRUE, v |-> JObj(m1), pos |-> e + 1]
                            ELSE IF b[e] = 44 THEN ParseMembers(b, e + 1, m1)
                            ELSE JFail
ParseValue(b, i) ==
    LET j == SkipWs(b, i) IN
    IF j > Len(b) THEN JFail
    ELSE IF b[j] = 123 THEN
        LET e == SkipWs(b, j + 1) IN
        IF e <= Len(b) /\ b[e] = 125
        THEN [ok |-> TRUE, v |-> JObj(Map_new), pos |-> e + 1]
        ELSE ParseMembers(b, j + 1, Map_new)
    ELSE IF b[j] = 34 THEN ParseChars(b, j + 1, <<>>)
    ELSE IF b[j] = 48 THEN [ok |-> TRUE, v |-> JNum(0), pos |-> j + 1]
    ELSE IF IsDigit(b[j]) THEN ParseDigits(b, j, 0)
    ELSE IF HasAt(b, j, <<110, 117, 108, 108>>)
    THEN [ok |-> TRUE, v |-> [t |-> "null"], pos |-> j + 4]
    ELSE IF HasAt(b, j, <<116, 114, 117, 101>>)
    THEN [ok |-> TRUE, v |-> [t |-> "true"], pos |-> j + 4]
    ELSE IF HasAt(b, j, <<102, 97, 108, 115, 101>>)
    THEN [ok |-> TRUE, v |-> [t |-> "false"], pos |-> j + 5]
    ELSE JFail

Json_from_str(b) ==
    LET r == ParseValue(b, 1) IN
    IF r.ok /\ SkipWs(b, r.pos) > Len(b) THEN [kind |-> "Ok", v |-> r.v]
    ELSE [kind |-> "Err", err |-> "JsonError", args |-> <<>>]

(***************************************************************************)
(* Records (record.rs)                                                     *)
(***************************************************************************)
TsRaw(v) == [kind |-> "Raw", v |-> v]

\* "{}"
EmptyObjectText == <<123, 125>>

\* the release build wraps a u32 product, the debug build panics on overflow
Builds == {"release", "debug"}

\* the digest without the payload bytes
record_digest_without_payload(header_buf, id_buf, eh_buf, encoded_data) ==
    digest_finalize(
        digest_update(
            digest_update(digest_update(digest_new, header_buf), id_buf),
            eh_buf))

\* the digest of from_reader: the header with its crc field zeroed, then the
\* identifier, extra-header and payload bytes as they were read
record_digest(header_buf, id_buf, eh_buf, encoded_data) ==
    digest_finalize(
        digest_update(
            digest_update(
                digest_update(digest_update(digest_new, header_buf), id_buf),
                eh_buf),
            encoded_data))

\* UnparsedMSeed3Record::from_reader on the bytes left in the reader; rest is
\* what the reader still holds after the call
from_reader(bytes, profile) ==
    LET buffer == Take(bytes, FIXED_HEADER_SIZE)
                  \o Repeat(0, FIXED_HEADER_SIZE - Min(FIXED_HEADER_SIZE, Len(bytes)))
        parsed == Header_try_from(buffer)
    IN
    IF parsed.kind = "Err" THEN parsed
    ELSE
    LET header    == parsed.header
        zeroed    == [i \in 1..FIXED_HEADER_SIZE |->
                        IF i > CRC_OFFSET /\ i <= CRC_OFFSET + 4 THEN 0 ELSE buffer[i]]
        after_hdr == Drop(bytes, FIXED_HEADER_SIZE)
        id_buf    == Take(after_hdr, raw_identifier_length(header))
        after_id  == Drop(after_hdr, raw_identifier_length(header))
        ident     == SourceIdentifier_try_from(id_buf)
        eh_buf    == Take(after_id, raw_extra_headers_length(header))
        after_eh  == Drop(after_id, raw_extra_headers_length(header))
        typed     == header.encoding.kind \in {"INT16", "INT32", "FLOAT32", "FLOAT64"}
        factor    == CASE header.encoding.kind = "INT16" -> 2
                       [] header.encoding.kind = "INT32" -> 4
                       [] header.encoding.kind = "FLOAT32" -> 4
                       [] header.encoding.kind = "FLOAT64" -> 8
                       [] OTHER -> 1
        expected_data_length ==
            IF typed THEN U32Mul(factor, header.num_samples)
            ELSE raw_data_length(header)
        take_data    == U32Min(raw_data_length(header), Len(after_eh))
        encoded_data == Take(after_eh, take_data)
        after_data   == Drop(after_eh, take_data)
        crc_calc     == record_digest(zeroed, id_buf, eh_buf, encoded_data)
    IN
    IF ident.kind = "Err" THEN ident
    ELSE IF raw_extra_headers_length(header) > 2 /\ ~from_utf8_ok(eh_buf)
    THEN [kind |-> "Err", err |-> "FromUtf8Error", args |-> <<>>]
    ELSE IF typed /\ profile = "debug" /\ U32MulOverflows(factor, header.num_samples)
    THEN Panic
    ELSE IF raw_data_length(header) # expected_data_length
    THEN [kind |-> "Err", err |-> "DataLength",
          args |-> <<expected_data_length, header.num_samples,
                     value(header.encoding), raw_data_length(header)>>]
    ELSE IF crc_calc # header.crc
    THEN [kind |-> "Err", err |-> "CrcInvalid", args |-> <<crc_calc, header.crc>>]
    ELSE [kind |-> "Ok",
          rec  |-> [type |-> "Unparsed",
                    header |-> [header EXCEPT !.num_samples =
                                  reconcile_num_samples(TsRaw(encoded_data), header.num_samples)],
                    identifier |-> ident.id,
                    extra_headers |-> IF raw_extra_headers_length(header) > 2
                                      THEN eh_buf ELSE EmptyObjectText,
                    encoded_data |-> TsRaw(encoded_data)],
          rest |-> after_data]

\* the buffer goes to the sink as it is, the crc field left at zero
Stamp_crc_not_patched(buf) ==
    [out |-> buf, ret |-> <<AsU32(Len(buf)), checksum(buf)>>]

\* the sink after the three writes of write_to, and the returned pair
Stamp(buf) ==
    LET crc == checksum(buf) IN
    [out |-> Slice(buf, 0, CRC_OFFSET) \o LE32(crc) \o Slice(buf, CRC_OFFSET + 4, Len(buf)),
     ret |-> <<AsU32(Len(buf)), crc>>]

Unparsed_write_to_wocrc(r) ==
    LET id_bytes == SourceIdentifier_as_bytes(r.identifier)
        identifier_length == AsU8(Len(id_bytes))
        data_length == byte_len(r.encoded_data)
        num_samples == reconcile_num_samples(r.encoded_data, r.header.num_samples)
        eh_bytes == r.extra_headers
        extra_headers_length == IF Len(eh_bytes) > 2 THEN AsU16(Len(eh_bytes)) ELSE 0
        mod_header == recalculated_lengths([r.header EXCEPT !.crc = U32Zero],
                          identifier_length, extra_headers_length, data_length, num_samples)
    IN  Header_write_to(mod_header) \o id_bytes
        \o (IF Len(eh_bytes) > 2 THEN eh_bytes ELSE <<>>)
        \o Timeseries_write_to(r.encoded_data)

Unparsed_write_to(r) == Stamp(Unparsed_write_to_wocrc(r))

parse_headers(raw_rec) ==
    LET v == Json_from_str(raw_rec.extra_headers) IN
    IF v.kind = "Err" THEN v
    ELSE IF v.v.t # "obj"
    THEN [kind |-> "Err", err |-> "ExtraHeaderNotObject", args |-> <<v.v>>]
    ELSE [kind |-> "Ok",
          rec |-> [type |-> "MSeed3Record", header |-> raw_rec.header,
                   identifier |-> raw_rec.identifier,
                   extra_headers |-> v.v.m,
                   encoded_data |-> raw_rec.encoded_data]]

pack_headers(r) ==
    LET eh_str == Json_to_string(JObj(r.extra_headers))
        extra_headers_length == IF Len(eh_str) > 2 THEN AsU16(Len(eh_str)) ELSE 0
        data_length == byte_len(r.encoded_data)
        num_samples == reconcile_num_samples(r.encoded_data, r.header.num_samples)
    IN  [type |-> "Unparsed",
         header |-> recalculated_lengths([r.header EXCEPT !.crc = U32Zero],
                        AsU8(Len(SourceIdentifier_to_string(r.identifier))),
                        extra_headers_length, data_length, num_samples),
         identifier |-> r.identifier,
         extra_headers |-> eh_str,
         encoded_data |-> r.encoded_data]

\* MSeed3Record::new; extra_headers is NoValue for None, Some(map) otherwise
MSeed3Record_new(header, identifier, extra_headers, encoded_data) ==
    LET extra_headers_length == 0 IN
    [type |-> "MSeed3Record",
     header |-> recalculated_lengths(header, SourceIdentifier_calc_len(identifier),
                    extra_headers_length, byte_len(encoded_data),
                    reconcile_num_samples(encoded_data, header.num_samples)),
     identifier |-> identifier,
     extra_headers |-> IF extra_headers.kind = "Some" THEN extra_headers.v ELSE Map_new,
     encoded_data |-> encoded_data]

\* MSeed3Record::from_reader
Record_from_reader(bytes, profile) ==
    LET u == from_reader(bytes, profile) IN
    IF u.kind = "Ok" THEN parse_headers(u.rec) ELSE u

Record_write_to_wocrc(r) ==
    LET id_bytes == SourceIdentifier_as_bytes(r.identifier)
        identifier_length == AsU8(Len(id_bytes))
        data_length == byte_len(r.encoded_data)
        num_samples == reconcile_num_samples(r.encoded_data, r.header.num_samples)
        eh_bytes == Json_to_string(JObj(r.extra_headers))
        extra_headers_length == IF Len(eh_bytes) > 2 THEN AsU16(Len(eh_bytes)) ELSE 0
        mod_header == recalculated_lengths(r.header,
                          identifier_length, extra_headers_length, data_length, num_samples)
    IN  Header_write_to(mod_header) \o id_bytes
        \o (IF Len(eh_bytes) > 2 THEN eh_bytes ELSE <<>>)
        \o Timeseries_write_to(r.encoded_data)

\* the clone whose crc write_to zeroes is never used
Record_write_to(r) == Stamp(Record_write_to_wocrc(r))

Record_get_record_size(r) == get_record_size(r.header)

(***************************************************************************)
(* Bounds and inputs                                                       *)
(***************************************************************************)
\* steim inputs: a first sample followed by up to MaxHead differences drawn
\* freely, or by up to MaxTail copies of one difference
MaxHead == 4
MaxTail == 14
\* composed records: typed payloads of 0..MaxSamples samples
MaxSamples == 2
\* records given to the reader: payloads of 0..MaxWords 16-bit words
MaxWords == 4

RECURSIVE SeqsUpTo(_, _)
SeqsUpTo(S, n) ==
    IF n = 0 THEN {<<>>}
    ELSE LET shorter == SeqsUpTo(S, n - 1)
         IN  shorter \cup {Append(q, x) : q \in {r \in shorter : Len(r) = n - 1}, x \in S}

\* differences that fit 8 bits, 16 bits and 32 bits only
HeadDiffs == {-1, 300, -40000}
TailDiffs == {1, 40000}
FirstSamples == {1, -70000}
\* inputs of one sample: zero, the ends of the 8-bit and 16-bit ranges, the
\* largest i32 and the negative of it
SingleSamples == {0, -1, 127, -128, 32767, -32768, 2147483647, -2147483647}
FrameLimits == {0, 1, 2}

RECURSIVE SamplesFrom(_, _, _)
SamplesFrom(x, ds, i) ==
    IF i > Len(ds) THEN <<>>
    ELSE <<x + ds[i]>> \o SamplesFrom(x + ds[i], ds, i + 1)

SamplesOf(x0, ds) == <<x0>> \o SamplesFrom(x0, ds, 1)

SteimInputs ==
    {<<>>}
    \cup {<<x>> : x \in SingleSamples}
    \cup {SamplesOf(x0, head) : x0 \in FirstSamples, head \in SeqsUpTo(HeadDiffs, MaxHead)}
    \cup {SamplesOf(x0, Repeat(d, n)) : x0 \in FirstSamples, d \in TailDiffs, n \in 0..MaxTail}

\* 2014-11-28T12:00:09Z
Starts == {[year |-> 2014, ordinal |-> 332, hour |-> 12, minute |-> 0,
            second |-> 9, nanosecond |-> 0]}
\* 10.0 as an f64 (0x4024000000000000)
Rate10 == <<(<<16420, 0>>), U32Zero>>
\* a CRC left in a header by an earlier read (0x642B7389)
StaleCrc == <<25643, 29577>>

Int16At(i) == (1 - 2 * (i % 2)) * 150 * i
Int32At(i) == (1 - 2 * (i % 2)) * 35000 * i
\* f32 values from 1.0 up and f64 values from 1.0 up, one bit pattern apart
Float32At(i) == <<16256, i>>
Float64At(i) == <<(<<16368, 0>>), (<<0, i>>)>>

TypedPayloads ==
    UNION {{[kind |-> "Int16",   v |-> [i \in 1..n |-> Int16At(i)]],
            [kind |-> "Int32",   v |-> [i \in 1..n |-> Int32At(i)]],
            [kind |-> "Float32", v |-> [i \in 1..n |-> Float32At(i)]],
            [kind |-> "Float64", v |-> [i \in 1..n |-> Float64At(i)]]} : n \in 0..MaxSamples}

Payloads == TypedPayloads \cup {[kind |-> "Opaque", v |-> <<1, 2, 3>>]}

ComposeEncodings == {Enc("INT16"), Enc("INT32"), Enc("FLOAT32"), Enc("FLOAT64"), Enc("OPAQUE")}

\* "", "A" and "FDSN:XX_BIRD_00_H_H_Z"
BirdId == <<70, 68, 83, 78, 58, 88, 88, 95, 66, 73, 82, 68, 95, 48, 48, 95, 72, 95, 72, 95, 90>>
ShortIdentifierTexts == {<<>>, <<65>>, BirdId}
\* texts of 255 and 256 bytes
LongIdentifierTexts == {Repeat(65, 255), Repeat(65, 256)}

\* None, Some(an empty map) and Some({"a":1})
ExtraHeaderOptions == {NoValue, Some(Map_new), Some(<<(<<(<<97>>), JNum(1)>>)>>)}

ComposeHeaders ==
    {[MSeed3Header_new(start, e, Rate10, n) EXCEPT !.crc = c] :
        start \in Starts, e \in ComposeEncodings, n \in {0, 3}, c \in {U32Zero, StaleCrc}}

\* the arguments of MSeed3Record::new: every combination with a short
\* identifier, and the long identifiers with 16-bit payloads and no extras
ComposeInputs ==
    {<<header, text, extra_headers, encoded_data>> :
        header \in ComposeHeaders, text \in ShortIdentifierTexts,
        extra_headers \in ExtraHeaderOptions, encoded_data \in Payloads}
    \cup
    {<<header, text, NoValue, encoded_data>> :
        header \in {h \in ComposeHeaders : h.encoding = Enc("INT16") /\ h.num_samples = U32Zero},
        text \in LongIdentifierTexts,
        encoded_data \in {d \in Payloads : d.kind = "Int16"}}

\* records on the wire, built field by field
WireCodes == {0, 1, 3, 4, 5, 7}
\* 0, 1, 2, 2^30 and 2^31 + 1
WireNumSamples == {U32(0), U32(1), U32(2), <<16384, 0>>, <<32768, 1>>}
\* "", "FDSN:X_S__B_H_Z" and a byte that is not UTF-8
WireIds == {<<>>, <<70, 68, 83, 78, 58, 88, 95, 83, 95, 95, 66, 95, 72, 95, 90>>, <<255>>}
\* "", "{", "{}", {"a":1} and three bytes that are not UTF-8
WireExtras == {<<>>, <<123>>, <<123, 125>>, <<123, 34, 97, 34, 58, 49, 125>>, <<255, 255, 255>>}
WireData == {[i \in 1..(2 * n) |-> 16 * i + 1] : n \in 0..MaxWords}
\* the whole record, the record without its last byte, the whole record with
\* a CRC field that does not match
WireVariants == {"whole", "cut", "bad_crc"}

WireHeader(code, ns, id, eh, data) ==
    [record_indicator |-> REC_IND, format_version |-> 3, flags |-> 4,
     nanosecond |-> U32(500), year |-> 2012, day_of_year |-> 1, hour |-> 23,
     minute |-> 59, second |-> 60, encoding |-> from_int(code),
     sample_rate_period |-> Rate10, num_samples |-> ns, crc |-> U32Zero,
     publication_version |-> 1, identifier_length |-> Len(id),
     extra_headers_length |-> Len(eh), data_length |-> U32(Len(data))]

\* the bytes of a record in one of the variants; the CRC field holds the
\* CRC32C of the bytes that are there, except in the variant bad_crc
WireRecord(code, ns, id, eh, data, variant) ==
    LET full == Header_write_to(WireHeader(code, ns, id, eh, data)) \o id \o eh \o data
        cut  == IF variant = "cut" /\ Len(full) > FIXED_HEADER_SIZE THEN 1 ELSE 0
        kept == Take(full, Len(full) - cut)
        crc  == IF variant = "bad_crc" THEN StaleCrc ELSE checksum(kept)
    IN  Take(kept, CRC_OFFSET) \o LE32(crc) \o Drop(kept, CRC_OFFSET + 4)

\* exclusive-or masks applied to one payload byte
TamperMasks == {1, 255}

(***************************************************************************)
(* Steim-1 scenario: encode an input, then decode the encoded bytes        *)
(***************************************************************************)
InitSteim ==
    /\ pc = "steim_start"
    /\ samples \in SteimInputs
    /\ frames \in FrameLimits
    /\ frame_block = NoValue
    /\ rt_data = NoValue
    /\ declared = NoValue
    /\ by_four = NoValue /\ chunk = NoValue
    /\ rec = NoValue /\ out = NoValue /\ ret = NoValue
    /\ stream = NoValue /\ rd = NoValue
    /\ build \in Builds
    /\ instant = NoValue

Encode ==
    /\ pc = "steim_start"
    /\ frame_block' = encode(samples, frames)
    /\ pc' = "steim_encoded"
    /\ UNCHANGED <<samples, frames, rt_data, declared, by_four, chunk, recordVars, build, instant>>

Decode ==
    /\ pc = "steim_encoded"
    /\ frame_block.kind = "Ok"
    /\ rt_data' = decode(get_encoded_data(frame_block), frame_block.num_samples)
    /\ pc' = "steim_decoded"
    /\ UNCHANGED <<samples, frames, frame_block, declared, by_four, chunk, recordVars, build, instant>>

NextSteim == Encode \/ Decode

SpecSteim == InitSteim /\ [][NextSteim]_vars

(***************************************************************************)
(* Writer scenario: compose a record, write it, read the written bytes     *)
(***************************************************************************)
Init ==
    /\ pc = "start"
    /\ rec = NoValue /\ out = NoValue /\ ret = NoValue
    /\ stream = NoValue /\ rd = NoValue
    /\ build \in Builds
    /\ instant = NoValue
    /\ samples = NoValue /\ frames = NoValue
    /\ frame_block = NoValue /\ rt_data = NoValue /\ declared = NoValue
    /\ by_four = NoValue /\ chunk = NoValue

Compose ==
    /\ pc = "start"
    /\ \E in \in ComposeInputs :
          rec' = MSeed3Record_new(in[1], SourceIdentifier_from(in[2]), in[3], in[4])
    /\ pc' = "composed"
    /\ UNCHANGED <<out, ret, stream, rd, steimVars, build, instant>>

Pack ==
    /\ pc = "composed"
    /\ rec.type = "MSeed3Record"
    /\ rec' = pack_headers(rec)
    /\ UNCHANGED <<pc, out, ret, stream, rd, steimVars, build, instant>>

WriteRecord ==
    /\ pc = "composed"
    /\ rec.type = "MSeed3Record"
    /\ out' = Record_write_to(rec).out
    /\ ret' = Record_write_to(rec).ret
    /\ pc' = "written"
    /\ UNCHANGED <<rec, stream, rd, steimVars, build, instant>>

WriteUnparsed ==
    /\ pc = "composed"
    /\ rec.type = "Unparsed"
    /\ out' = Unparsed_write_to(rec).out
    /\ ret' = Unparsed_write_to(rec).ret
    /\ pc' = "written"
    /\ UNCHANGED <<rec, stream, rd, steimVars, build, instant>>

ReadBack ==
    /\ pc = "written"
    /\ rd' = Record_from_reader(out, build)
    /\ pc' = "read_back"
    /\ UNCHANGED <<rec, out, ret, stream, steimVars, build, instant>>

Next == Compose \/ Pack \/ WriteRecord \/ WriteUnparsed \/ ReadBack

Spec == Init /\ [][Next]_vars

(***************************************************************************)
(* Reader scenario: read a record from bytes, write it again, or change a  *)
(* payload byte of an accepted record and read once more                   *)
(***************************************************************************)
InitRead ==
    /\ pc = "reader_start"
    /\ \E code \in WireCodes, ns \in WireNumSamples, id \in WireIds, eh \in WireExtras,
          data \in WireData, variant \in WireVariants :
          stream = WireRecord(code, ns, id, eh, data, variant)
    /\ rd = NoValue /\ rec = NoValue /\ out = NoValue /\ ret = NoValue
    /\ build \in Builds
    /\ instant = NoValue
    /\ samples = NoValue /\ frames = NoValue
    /\ frame_block = NoValue /\ rt_data = NoValue /\ declared = NoValue
    /\ by_four = NoValue /\ chunk = NoValue

Read ==
    /\ pc = "reader_start"
    /\ rd' = from_reader(stream, build)
    /\ pc' = "read_done"
    /\ UNCHANGED <<rec, out, ret, stream, steimVars, build, instant>>

Rewrite ==
    /\ pc = "read_done"
    /\ rd.kind = "Ok"
    /\ rec' = rd.rec
    /\ out' = Unparsed_write_to(rd.rec).out
    /\ ret' = Unparsed_write_to(rd.rec).ret
    /\ pc' = "rewritten"
    /\ UNCHANGED <<stream, rd, steimVars, build, instant>>

\* the 1-based positions of the payload bytes of the accepted record in stream
PayloadPositions ==
    LET first == FIXED_HEADER_SIZE + raw_identifier_length(rd.rec.header)
                 + raw_extra_headers_length(rd.rec.header)
    IN  (first + 1)..(first + Len(rd.rec.encoded_data.v))

Tamper ==
    /\ pc = "read_done"
    /\ rd.kind = "Ok"
    /\ \E i \in PayloadPositions, m \in TamperMasks :
          stream' = [stream EXCEPT ![i] = Xor8(@, m)]
    /\ pc' = "tampered"
    /\ UNCHANGED <<rec, out, ret, rd, steimVars, build, instant>>

ReadTampered ==
    /\ pc = "tampered"
    /\ rd' = from_reader(stream, build)
    /\ pc' = "tampered_read"
    /\ UNCHANGED <<rec, out, ret, stream, steimVars, build, instant>>

NextRead == Read \/ Rewrite \/ Tamper \/ ReadTampered

SpecRead == InitRead /\ [][NextRead]_vars

(***************************************************************************)
(* Properties of the Steim-1 scenario (SpecSteim)                          *)
(***************************************************************************)
\* C1: Steim-1 round trip.  For every non-empty input that the encoder put
\* whole into its one 64-byte frame (frames = 0, every sample counted in the
\* block), decode of the block's bytes with the block's num_samples returns
\* Ok with exactly the input; inputs with four consecutive differences that
\* each fit a signed 8-bit value are among them.
C1_SteimRoundTrip ==
    (/\ pc = "steim_decoded"
     /\ frames = 0
     /\ Len(samples) >= 1
     /\ Len(frame_block.steim_frame) = 1
     /\ frame_block.num_samples = Len(samples))
    => rt_data = [kind |-> "Ok", samples |-> samples]

\* C10: encode packs all the input when unlimited.  For every non-empty
\* input, encode returns a block; with frames = 0 the block counts every
\* sample, and with frames = F > 0 the block either holds F frames or counts
\* every sample.
C10_EncodePacksAll ==
    (pc = "steim_encoded" /\ Len(samples) >= 1)
    => /\ frame_block.kind = "Ok"
       /\ (frames = 0 => frame_block.num_samples = Len(samples))
       /\ (frames > 0 => \/ Len(frame_block.steim_frame) = frames
                          \/ frame_block.num_samples = Len(samples))

(***************************************************************************)
(* Properties of the writer scenario (Spec)                                *)
(***************************************************************************)
\* a record's bytes with the four bytes of the crc field set to zero
ZeroCrcField(bytes) ==
    [i \in 1..Len(bytes) |-> IF i > 28 /\ i <= 32 THEN 0 ELSE bytes[i]]

\* the u32 stored little-endian in the four bytes after the first n bytes
FieldU32(bytes, n) ==
    <<bytes[n + 3] + 256 * bytes[n + 4], bytes[n + 1] + 256 * bytes[n + 2]>>

\* C2: MSeed3Record::write_to returns and stores the right CRC whatever
\* header.crc held.  After a write of an MSeed3Record the returned CRC is the
\* CRC32C of the emitted bytes with bytes 28..32 zeroed, the same value is at
\* bytes 28..32 of the output, and reading the output back never fails with
\* CrcInvalid.
C2_RecordWriteCrc ==
    /\ (pc = "written" /\ rec.type = "MSeed3Record")
       => /\ ret[2] = checksum(ZeroCrcField(out))
          /\ FieldU32(out, 28) = ret[2]
    /\ (pc = "read_back" /\ rec.type = "MSeed3Record")
       => ~(rd.kind = "Err" /\ rd.err = "CrcInvalid")

\* C6: the bytes written agree with the emitted header.  After every write
\* (MSeed3Record or UnparsedMSeed3Record) the number of bytes written, which
\* is also the number returned, is 40 plus the identifier_length at offset 33,
\* the extra_headers_length at offset 34 and the data_length at offset 36 of
\* the output; identifiers longer than 255 bytes are included.
C6_WrittenLengthMatchesHeader ==
    pc = "written"
    => /\ ret[1] = <<0, Len(out)>>
       /\ FieldU32(out, 36)[1] = 0
       /\ Len(out) = 40 + out[34] + (out[35] + 256 * out[36]) + FieldU32(out, 36)[2]

\* C7: composition reconciles lengths immediately.  For every record that
\* MSeed3Record::new returned, with or without a non-empty extra-headers map,
\* get_record_size() is the number of bytes write_to writes for it.
C7_NewRecordSizeIsWritten ==
    (pc = "written" /\ rec.type = "MSeed3Record")
    => Record_get_record_size(rec) = <<0, Len(out)>>

\* byte k (0 the least significant) of a u32
ByteOfU32(x, k) ==
    IF k < 2 THEN (x[2] \div (256 ^ k)) % 256 ELSE (x[1] \div (256 ^ (k - 2))) % 256

\* byte k (0 the least significant) of a sample in two's complement or IEEE form
ByteOfSample(kind, el, k) ==
    CASE kind \in {"Int16", "Int32"} -> (el \div (256 ^ k)) % 256
      [] kind = "Float32" -> ByteOfU32(el, k)
      [] kind = "Float64" -> IF k < 4 THEN ByteOfU32(el[2], k) ELSE ByteOfU32(el[1], k - 4)

SampleWidth(kind) ==
    CASE kind = "Int16" -> 2
      [] kind = "Int32" -> 4
      [] kind = "Float32" -> 4
      [] kind = "Float64" -> 8

\* the samples of a typed payload one after the other, least significant byte first
LittleEndianImage(d) ==
    [j \in 1..(SampleWidth(d.kind) * Len(d.v)) |->
        ByteOfSample(d.kind, d.v[((j - 1) \div SampleWidth(d.kind)) + 1],
                     (j - 1) % SampleWidth(d.kind))]

\* the record in memory was composed from a header with crc = 0, an
\* identifier of at most 255 bytes, no extra headers and a typed payload of
\* the header's encoding
ComposedPlainTyped ==
    /\ rec.type = "MSeed3Record"
    /\ rec.header.crc = U32Zero
    /\ Len(SourceIdentifier_as_bytes(rec.identifier)) <= 255
    /\ rec.extra_headers = Map_new
    /\ <<rec.encoded_data.kind, rec.header.encoding.kind>> \in
          {<<"Int16", "INT16">>, <<"Int32", "INT32">>,
           <<"Float32", "FLOAT32">>, <<"Float64", "FLOAT64">>}

\* C4: compose-write-read round trip.  For every record built by
\* MSeed3Record::new from a header with crc = 0, an identifier of at most 255
\* bytes, no extra headers and a typed payload of the header's encoding,
\* write_to followed by from_reader on the written bytes succeeds and yields
\* the same identifier text, num_samples equal to the array length and a
\* payload whose bytes are the little-endian image of the samples.
C4_ComposeWriteRead ==
    (pc = "read_back" /\ ComposedPlainTyped)
    => /\ rd.kind = "Ok"
       /\ SourceIdentifier_to_string(rd.rec.identifier)
            = SourceIdentifier_to_string(rec.identifier)
       /\ rd.rec.header.num_samples = <<0, Len(rec.encoded_data.v)>>
       /\ rd.rec.encoded_data = TsRaw(LittleEndianImage(rec.encoded_data))

\* a 32-bit integer payload of two or more samples under an FDSN identifier
\* was written and read back
C4_Witness ==
    /\ pc = "read_back"
    /\ ComposedPlainTyped
    /\ rec.encoded_data.kind = "Int32"
    /\ Len(rec.encoded_data.v) >= 2
    /\ rec.identifier.kind = "Fdsn"
    /\ rd.kind = "Ok"

(***************************************************************************)
(* Properties of the reader scenario (SpecRead)                            *)
(***************************************************************************)
\* the three length fields of the header at the front of stream
StreamIdLen == stream[34]
StreamExtraLen == stream[35] + 256 * stream[36]
StreamDataLen == FieldU32(stream, 36)
StreamNumSamples == FieldU32(stream, 24)
StreamCrc == FieldU32(stream, 28)

\* stream holds every byte its header declares, and nothing more
StreamIsWhole ==
    /\ StreamDataLen[1] = 0
    /\ Len(stream) = 40 + StreamIdLen + StreamExtraLen + StreamDataLen[2]

\* C3 as stated: read-then-write is the identity on bytes.  For every byte
\* string that from_reader accepts, write_to of the returned record emits
\* exactly that byte string and returns the record's header.crc; records whose
\* extra_headers_length on disk is 1 or 2 are included.
C3_ReadWriteIdentity ==
    pc = "rewritten"
    => /\ out = stream
       /\ ret = <<(<<0, Len(stream)>>), rd.rec.header.crc>>

\* C3 as amended: for every accepted byte string that holds all the bytes its
\* header declares and whose extra_headers_length is 0 or more than 2,
\* write_to of the returned record emits exactly that byte string and returns
\* its length and the record's header.crc.
C3_ReadWriteIdentityAmended ==
    (/\ pc = "rewritten"
     /\ StreamIsWhole
     /\ StreamExtraLen \notin {1, 2})
    => /\ out = stream
       /\ ret = <<(<<0, Len(stream)>>), rd.rec.header.crc>>

\* a whole record with an FDSN identifier, extra headers and a payload was
\* read and written again
C3_Witness ==
    /\ pc = "rewritten"
    /\ StreamIsWhole
    /\ StreamExtraLen > 2
    /\ StreamIdLen > 0
    /\ StreamDataLen[2] > 0
    /\ out = stream

\* the bytes of stream that belong to the record at its front
StreamRecordBytes ==
    IF StreamDataLen[1] > 0 THEN stream
    ELSE Take(stream, 40 + StreamIdLen + StreamExtraLen + StreamDataLen[2])

\* the CRC32C of the header bytes with the crc field taken as zero, then the
\* identifier, extra-header and payload bytes
StreamChecksum == checksum(ZeroCrcField(StreamRecordBytes))

\* C5: a record is accepted only with a matching checksum.  Whenever
\* from_reader returns Ok, the CRC32C over the 40 header bytes with bytes
\* 28..32 zeroed, then the identifier, extra-header and payload bytes, equals
\* the crc field; a CrcInvalid error carries that computed CRC32C and the crc
\* field; and after one payload byte of an accepted record was changed,
\* from_reader returns CrcInvalid(computed, header crc field).
C5_AcceptedOnlyWithMatchingCrc ==
    /\ (pc \in {"read_done", "tampered_read"} /\ rd.kind = "Ok")
       => StreamChecksum = StreamCrc
    /\ (pc \in {"read_done", "tampered_read"} /\ rd.kind = "Err" /\ rd.err = "CrcInvalid")
       => rd.args = <<StreamChecksum, StreamCrc>>
    /\ pc = "tampered_read"
       => rd = [kind |-> "Err", err |-> "CrcInvalid",
                args |-> <<StreamChecksum, StreamCrc>>]

\* a payload byte of an accepted record was changed and the record read again
C5_Witness ==
    /\ pc = "tampered_read"
    /\ rd.kind = "Err"
    /\ rd.err = "CrcInvalid"
    /\ StreamExtraLen > 2
    /\ StreamIdLen > 0

\* the encoding code of the header at the front of stream
StreamEncodingCode == stream[16]
\* the codes of Int16, Int32, Float32 and Float64
TypedCodes == {1, 3, 4, 5}
ElementSize(code) ==
    CASE code = 1 -> 2
      [] code = 3 -> 4
      [] code = 4 -> 4
      [] code = 5 -> 8

\* k times the u32 x as a mathematical integer, in three 16-bit digits
ExactProduct(k, x) ==
    LET lo  == k * x[2]
        mid == k * x[1] + (lo \div 65536)
    IN  <<mid \div 65536, mid % 65536, lo % 65536>>

\* data_length of the header is element size times num_samples exactly
StreamLengthsAgree ==
    <<0, StreamDataLen[1], StreamDataLen[2]>>
        = ExactProduct(ElementSize(StreamEncodingCode), StreamNumSamples)

\* the identifier bytes, and the extra-header bytes when there are more than
\* two, are UTF-8, so that from_reader gets as far as the length check
StreamTextIsUtf8 ==
    /\ from_utf8_ok(Take(Drop(stream, 40), StreamIdLen))
    /\ StreamExtraLen > 2
        => from_utf8_ok(Take(Drop(stream, 40 + StreamIdLen), StreamExtraLen))

\* C8: data-length validation on read.  When the encoding is Int16, Int32,
\* Float32 or Float64 and data_length differs from 2, 4, 4 or 8 times
\* num_samples, from_reader fails with DataLength(expected, num_samples,
\* encoding code, data_length), whatever the crc field holds; for every other
\* encoding from_reader never returns DataLength.  (Read for records whose
\* identifier and extra headers are UTF-8.)
C8_DataLengthValidation ==
    (pc \in {"read_done", "tampered_read"} /\ StreamTextIsUtf8)
    => /\ (StreamEncodingCode \in TypedCodes /\ ~StreamLengthsAgree)
          => /\ rd.kind = "Err"
             /\ rd.err = "DataLength"
             /\ rd.args[2] = StreamNumSamples
             /\ rd.args[3] = StreamEncodingCode
             /\ rd.args[4] = StreamDataLen
             /\ LET p == ExactProduct(ElementSize(StreamEncodingCode), StreamNumSamples)
                IN  p[1] = 0 => rd.args[1] = <<p[2], p[3]>>
       /\ (StreamEncodingCode \notin TypedCodes)
          => ~(rd.kind = "Err" /\ rd.err = "DataLength")

\* C9: every record that from_reader accepts with encoding Int16, Int32,
\* Float32 or Float64 has data_length equal to element size times
\* num_samples as mathematical integers, for every num_samples below 2^32.
C9_AcceptedLengthIsExactProduct ==
    (/\ pc \in {"read_done", "tampered_read"}
     /\ rd.kind = "Ok"
     /\ StreamEncodingCode \in TypedCodes)
    => StreamLengthsAgree

(***************************************************************************)
(* Decoder scenario: decode a byte slice with a declared sample count      *)
(***************************************************************************)
\* the ways a slice given to decode is derived from an encoded block
DecodeVariants == {"whole", "cut", "longer", "empty", "xn", "two_frames", "retagged"}

\* the slice with the byte at 0-based index k exclusive-or'ed with mask
FlipByte(b, k, mask) == [b EXCEPT ![k + 1] = Xor8(@, mask)]

\* the frame with every tag moved one field down the nibble word, so that the
\* tag the encoder wrote for w(k) into the field c(k - 1) stands in c(k)
Retagged(b) == BE32(U32Shr1(U32Shr1(U32FromBE(Take(b, 4))))) \o Drop(b, 4)

DecodeSlice(b, variant) ==
    CASE variant = "whole"      -> b
      [] variant = "cut"        -> Take(b, Len(b) - 1)
      [] variant = "longer"     -> b \o <<0>>
      [] variant = "empty"      -> <<>>
      [] variant = "xn"         -> FlipByte(b, 11, 1)
      [] variant = "two_frames" -> b \o Repeat(0, 64)
      [] variant = "retagged"   -> Retagged(b)

InitDecode ==
    /\ pc = "decode_start"
    /\ samples \in SteimInputs \ {<<>>}
    /\ frames = 0
    /\ frame_block = NoValue
    /\ rt_data = NoValue
    /\ encode(samples, frames).kind = "Ok"
    /\ \E variant \in DecodeVariants :
          stream = DecodeSlice(get_encoded_data(encode(samples, frames)), variant)
    /\ declared \in {0, 1, Len(samples), Len(samples) + 1}
    /\ by_four = NoValue /\ chunk = NoValue
    /\ rec = NoValue /\ out = NoValue /\ ret = NoValue /\ rd = NoValue
    /\ build \in Builds
    /\ instant = NoValue

DecodeBytes ==
    /\ pc = "decode_start"
    /\ rt_data' = decode(stream, declared)
    /\ pc' = "bytes_decoded"
    /\ UNCHANGED <<samples, frames, frame_block, declared, by_four, chunk, recordVars, build, instant>>

NextDecode == DecodeBytes

SpecDecode == InitDecode /\ [][NextDecode]_vars

(***************************************************************************)
(* Properties of the decoder scenario (SpecDecode)                         *)
(***************************************************************************)
\* the samples the frame loop of decode produces from the slice
StreamDecoded ==
    decode_frames(stream, 0, Len(stream) \div 64,
                  [samples |-> <<>>, start |-> 0, end |-> 0, last_value |-> 0])
\* the X(0) and X(N-1) words of frame 0
StreamX0 == U32ToI32(U32FromBE(Slice(stream, 4, 8)))
StreamXN == U32ToI32(U32FromBE(Slice(stream, 8, 12)))

\* C11: decode reports integrity failures as an error value.  For a slice of
\* one or more whole frames whose frame loop completes with at least one
\* sample, when the number of decoded samples differs from the declared count,
\* or the first decoded sample differs from X(0), or the last decoded sample
\* differs from the X(N-1) word of frame 0, decode returns Err(Compression).
C11_IntegrityFailureIsError ==
    (/\ pc = "bytes_decoded"
     /\ Len(stream) > 0 /\ Len(stream) % 64 = 0
     /\ StreamDecoded # Panic
     /\ Len(StreamDecoded.samples) > 0
     /\ \/ Len(StreamDecoded.samples) # declared
        \/ StreamDecoded.samples[1] # StreamX0
        \/ StreamDecoded.samples[Len(StreamDecoded.samples)] # StreamXN)
    => rt_data = Err("Compression")

\* C12: decode rejects bad input lengths.  For every declared sample count,
\* zero included, decode returns Err(Compression) when the slice is empty or
\* its length is not a multiple of 64.
C12_BadLengthIsError ==
    (pc = "bytes_decoded" /\ (Len(stream) = 0 \/ Len(stream) % 64 # 0))
    => rt_data = Err("Compression")

(***************************************************************************)
(* Header scenario: parse header bytes, emit the header, set its start     *)
(***************************************************************************)
\* get_dummy_header of the header tests: a header and the 24 bytes after it
DummyHeader ==
    <<77, 83, 3, 4, 0, 0, 0, 0, 220, 7, 1, 0, 0, 0, 0, 1,
      0, 0, 0, 0, 0, 0, 240, 63, 144, 1, 0, 0, 214, 135, 210, 4,
      1, 19, 0, 0, 32, 3, 0, 0, 70, 68, 83, 78, 58, 88, 88, 95,
      84, 69, 83, 84, 95, 95, 76, 95, 72, 95, 90, 0, 0, 2, 0, 4>>
\* 64 bytes that are all different
PatternBytes == [i \in 1..64 |-> (37 * i + 11) % 256]

\* the lengths of the slices: nothing, parts of a header, a header, more
SliceLengths == {0, 1, 3, 39, 40, 41, 64}

\* the first len bytes of base with bytes 0, 1, 2 and 15 replaced
HeaderInput(base, b0, b1, b2, x, len) ==
    Take(<<b0, b1, b2>> \o SubSeq(base, 4, 15) \o <<x>> \o SubSeq(base, 17, 64), len)

\* every encoding byte in a whole well-formed header
EncodingSweep ==
    {HeaderInput(base, 77, 83, 3, x, FIXED_HEADER_SIZE) :
        base \in {DummyHeader, PatternBytes}, x \in 0..255}
\* every length with good and bad indicator and version bytes
StructureSweep ==
    {HeaderInput(base, b0, b1, b2, x, len) :
        base \in {DummyHeader, PatternBytes}, b0 \in {77, 88}, b1 \in {83, 0},
        b2 \in {3, 2}, x \in {1, 7}, len \in SliceLengths}

\* 2016-12-31T23:59:59 with 1_900_000_000 ns (the leap second), the same
\* second with 1_000_000_000 ns and with 999_999_999 ns
LeapStart == [year |-> 2016, ordinal |-> 366, hour |-> 23, minute |-> 59,
              second |-> 59, nanosecond |-> 1900000000]
\* 0000-01-01T00:00:00 and 65535-12-31T23:59:59.999999999, the first and the
\* last instant whose year fits the u16 field
FirstStart == [year |-> 0, ordinal |-> 1, hour |-> 0, minute |-> 0,
               second |-> 0, nanosecond |-> 0]
LastStart == [year |-> 65535, ordinal |-> 365, hour |-> 23, minute |-> 59,
              second |-> 59, nanosecond |-> 999999999]
StartInstants ==
    Starts \cup {LeapStart, [LeapStart EXCEPT !.nanosecond = 1000000000],
                 [LeapStart EXCEPT !.nanosecond = 999999999],
                 FirstStart, LastStart}

\* chrono: Utc.yo(year, ordinal) panics when the year has no such day, and
\* and_hms_nano panics ("invalid time") unless hour < 24, minute < 60,
\* second < 60 and nano < 2_000_000_000
IsLeapYear(y) == (y % 4 = 0 /\ y % 100 # 0) \/ y % 400 = 0
DaysInYear(y) == IF IsLeapYear(y) THEN 366 ELSE 365

get_start_as_utc(h) ==
    IF \/ h.day_of_year < 1 \/ h.day_of_year > DaysInYear(h.year)
       \/ h.hour > 23 \/ h.minute > 59 \/ h.second > 59
       \/ ~U32LessEq(h.nanosecond, U32(1999999999))
    THEN Panic
    ELSE [kind |-> "Ok",
          v |-> [year |-> h.year, ordinal |-> h.day_of_year, hour |-> h.hour,
                 minute |-> h.minute, second |-> h.second,
                 nanosecond |-> h.nanosecond[1] * 65536 + h.nanosecond[2]]]

MonthLength(y, m) ==
    IF m = 2 THEN (IF IsLeapYear(y) THEN 29 ELSE 28)
    ELSE IF m \in {4, 6, 9, 11} THEN 30 ELSE 31

\* the month and the day of the month of the ordinal day of a year
RECURSIVE MonthDay(_, _, _)
MonthDay(y, ordinal, m) ==
    IF ordinal <= MonthLength(y, m) THEN [month |-> m, day |-> ordinal]
    ELSE MonthDay(y, ordinal - MonthLength(y, m), m + 1)

\* a number in decimal, zero-padded to a width
RECURSIVE Padded(_, _)
Padded(n, width) ==
    IF width <= 1 /\ n < 10 THEN <<48 + n>>
    ELSE Padded(n \div 10, width - 1) \o <<48 + (n % 10)>>

\* format("%Y-%m-%dT%H:%M:%S%.9fZ"): a year above 9999 is written with a
\* sign, a leap second as second 60
FormatIso(t) ==
    (IF t.year > 9999 THEN <<43>> ELSE <<>>) \o Padded(t.year, 4) \o <<45>>
    \o Padded(MonthDay(t.year, t.ordinal, 1).month, 2) \o <<45>>
    \o Padded(MonthDay(t.year, t.ordinal, 1).day, 2) \o <<84>>
    \o Padded(t.hour, 2) \o <<58>> \o Padded(t.minute, 2) \o <<58>>
    \o Padded(t.second + (t.nanosecond \div 1000000000), 2) \o <<46>>
    \o Padded(t.nanosecond % 1000000000, 9) \o <<90>>

get_start_as_iso(h) ==
    IF get_start_as_utc(h).kind = "Panic" THEN Panic
    ELSE [kind |-> "Ok", v |-> FormatIso(get_start_as_utc(h).v)]

InitHeader ==
    /\ pc = "header_start"
    /\ samples = NoValue /\ frames = NoValue
    /\ frame_block = NoValue /\ rt_data = NoValue /\ declared = NoValue
    /\ by_four = NoValue /\ chunk = NoValue
    /\ rec = NoValue /\ out = NoValue /\ ret = NoValue /\ rd = NoValue
    /\ \/ stream \in EncodingSweep
       \/ stream \in StructureSweep
    /\ build \in Builds
    /\ instant \in StartInstants

ParseSlice ==
    /\ pc = "header_start"
    /\ rd' = Header_try_from_slice(stream)
    /\ pc' = "slice_parsed"
    /\ UNCHANGED <<rec, out, ret, stream, steimVars, build, instant>>

ReadHeader ==
    /\ pc = "header_start"
    /\ rd' = from_reader(stream, build)
    /\ pc' = "header_read"
    /\ UNCHANGED <<rec, out, ret, stream, steimVars, build, instant>>

EmitHeader ==
    /\ pc = "slice_parsed"
    /\ rd.kind = "Ok"
    /\ out' = Header_write_to(rd.header)
    /\ pc' = "header_emitted"
    /\ UNCHANGED <<rec, ret, stream, rd, steimVars, build, instant>>

SetStart ==
    /\ pc = "slice_parsed"
    /\ rd.kind = "Ok"
    /\ rec' = set_start_from_utc(rd.header, instant)
    /\ pc' = "start_set"
    /\ UNCHANGED <<out, ret, stream, rd, steimVars, build, instant>>

\* get_start_as_utc() and get_start_as_iso() on the header whose start was set
GetStart ==
    /\ pc = "start_set"
    /\ ret' = get_start_as_utc(rec)
    /\ out' = get_start_as_iso(rec)
    /\ pc' = "start_got"
    /\ UNCHANGED <<rec, stream, rd, steimVars, build, instant>>

NextHeader == ParseSlice \/ ReadHeader \/ EmitHeader \/ SetStart \/ GetStart

SpecHeader == InitHeader /\ [][NextHeader]_vars

(***************************************************************************)
(* Properties of the header scenario (SpecHeader)                          *)
(***************************************************************************)
\* C13: fixed-header parse errors.  Parsing 40 bytes fails with
\* BadRecordIndicator(b0, b1) whenever bytes 0 and 1 are not 'M', 'S', and
\* otherwise with UnknownFormatVersion(b2) whenever byte 2 is not 3; the
\* indicator check comes before the version check, and every 40-byte input
\* that starts 'M', 'S', 3 parses.
C13_HeaderParseErrors ==
    (pc = "slice_parsed" /\ Len(stream) = 40)
    => IF stream[1] # 77 \/ stream[2] # 83
       THEN rd = [kind |-> "Err", err |-> "BadRecordIndicator",
                  args |-> <<stream[1], stream[2]>>]
       ELSE IF stream[3] # 3
       THEN rd = [kind |-> "Err", err |-> "UnknownFormatVersion",
                  args |-> <<stream[3]>>]
       ELSE rd.kind = "Ok"

\* 40 bytes with a wrong indicator and a wrong version were parsed
C13_Witness ==
    /\ pc = "slice_parsed" /\ Len(stream) = 40
    /\ stream[1] = 88 /\ stream[3] = 2
    /\ rd.kind = "Err" /\ rd.err = "BadRecordIndicator" /\ rd.args = <<88, 83>>

\* C14: short header read.  When the reader holds fewer than 40 bytes, none
\* included, from_reader fails with InsufficientBytes(actual, 40); it never
\* parses a zero-padded partial read and reports no other error kind.
C14_ShortReadIsInsufficientBytes ==
    (pc = "header_read" /\ Len(stream) < 40)
    => rd = [kind |-> "Err", err |-> "InsufficientBytes",
             args |-> <<Len(stream), 40>>]

\* C15: try_from on a slice returns InsufficientBytes exactly when the slice
\* has fewer than 40 bytes; for a slice of 40 bytes or more it returns what
\* parsing the first 40 bytes alone returns, with no other failure.
C15_SliceParseUsesFirst40 ==
    pc = "slice_parsed"
    => IF Len(stream) < 40
       THEN rd = [kind |-> "Err", err |-> "InsufficientBytes",
                  args |-> <<Len(stream), 40>>]
       ELSE rd = Header_try_from(Take(stream, 40))

\* C16: fixed-header byte round trip.  For every 40 bytes that parse,
\* write_to of the parsed header emits exactly those 40 bytes: the flags, an
\* unknown encoding byte, the CRC field and the three length fields included.
C16_HeaderByteRoundTrip ==
    (pc = "header_emitted" /\ Len(stream) = 40)
    => out = stream

\* a header with flags, an unknown encoding, a CRC and lengths that are not
\* zero was parsed and emitted
C16_Witness ==
    /\ pc = "header_emitted" /\ Len(stream) = 40 /\ Len(out) = 40
    /\ stream[4] # 0 /\ from_int(stream[16]).kind = "UNKNOWN"
    /\ SubSeq(stream, 29, 32) # <<0, 0, 0, 0>>
    /\ stream[34] # 0 /\ SubSeq(stream, 35, 36) # <<0, 0>>
    /\ SubSeq(stream, 37, 40) # <<0, 0, 0, 0>>

\* the encoding the format assigns to a code
EncodingOfCode(x) ==
    CASE x = 0 -> "TEXT" [] x = 1 -> "INT16" [] x = 3 -> "INT32"
      [] x = 4 -> "FLOAT32" [] x = 5 -> "FLOAT64" [] x = 10 -> "STEIM1"
      [] x = 11 -> "STEIM2" [] x = 19 -> "STEIM3" [] x = 100 -> "OPAQUE"
      [] OTHER -> "UNKNOWN"

\* C19: DataEncoding code round trip.  For every byte x, from_int(x).value()
\* is x; 0, 1, 3, 4, 5, 10, 11, 19 and 100 are Text, Int16, Int32, Float32,
\* Float64, Steim1, Steim2, Steim3 and Opaque, every other byte is Unknown(x).
\* (x is the encoding byte of the parsed header, value() the byte emitted.)
C19_EncodingCodeRoundTrip ==
    (pc = "header_emitted" /\ Len(stream) = 40)
    => /\ rd.header.encoding.kind = EncodingOfCode(stream[16])
       /\ rd.header.encoding.kind = "UNKNOWN" => rd.header.encoding.val = stream[16]
       /\ value(rd.header.encoding) = stream[16]
       /\ out[16] = stream[16]

\* the byte 255 was parsed as Unknown(255) and emitted
C19_Witness ==
    /\ pc = "header_emitted"
    /\ stream[16] = 255
    /\ rd.header.encoding = [kind |-> "UNKNOWN", val |-> 255]
    /\ out[16] = 255

\* C20: leap-second derivation.  After set_start_from_utc(t) the nanosecond
\* field is in [0, 999_999_999]; when t carries 1_000_000_000 ns or more the
\* second field is the second of t plus one and the nanosecond field is the
\* remainder (23:59:59 with 1_900_000_000 ns gives second 60, 900_000_000 ns).
C20_LeapSecond ==
    pc = "start_set"
    => /\ U32LessEq(rec.nanosecond, U32(999999999))
       /\ instant.nanosecond >= 1000000000
          => /\ rec.second = instant.second + 1
             /\ rec.nanosecond = U32(instant.nanosecond - 1000000000)
       /\ instant.nanosecond < 1000000000
          => /\ rec.second = instant.second
             /\ rec.nanosecond = U32(instant.nanosecond)

\* the start of the leap-second test was set
C20_Witness ==
    /\ pc = "start_set"
    /\ instant = LeapStart
    /\ rec.second = 60
    /\ rec.nanosecond = U32(900000000)

\* C29: start-time round trip.  After set_start_from_utc(t), for every t with
\* a year in 0..65535 and also for a leap-second instant stored as second 60,
\* get_start_as_utc() returns t and get_start_as_iso() returns the text of t.
C29_StartRoundTrip ==
    pc = "start_got"
    => /\ ret = [kind |-> "Ok", v |-> instant]
       /\ out = [kind |-> "Ok", v |-> FormatIso(instant)]

(***************************************************************************)
(* Identifier scenario: build a SourceIdentifier from a text, measure it   *)
(***************************************************************************)
\* the length of the long components
MaxPart == 250

\* "", "X", "IU", "ABCDEFG8", "ABCDEFGH9", "iu" and "X-"
NetTexts == {<<>>, <<88>>, <<73, 85>>, <<65, 66, 67, 68, 69, 70, 71, 56>>,
             <<65, 66, 67, 68, 69, 70, 71, 72, 57>>, <<105, 117>>, <<88, 45>>}
\* "", "A-B" and "ABCDEFGH9"
StaTexts == {<<>>, <<65, 45, 66>>, <<65, 66, 67, 68, 69, 70, 71, 72, 57>>}
\* "", "00", "-" and "-12345678"
LocTexts == {<<>>, <<48, 48>>, <<45>>, <<45, 49, 50, 51, 52, 53, 54, 55, 56>>}
\* "", "B" and a run of 'B'
BandTexts == {<<>>, <<66>>, Repeat(66, MaxPart)}
\* "", "H" and "-"
SourceTexts == {<<>>, <<72>>, <<45>>}
\* "", "Z", "Z" with a line feed and a run of 'Z'
SubsourceTexts == {<<>>, <<90>>, <<90, 10>>, Repeat(90, MaxPart)}

\* the ways the components are put together
TextForms == {"plain", "no_prefix", "lower_prefix", "extra_part", "no_subsource", "accent"}

JoinParts(net, sta, loc, band, source, subsource) ==
    net \o <<95>> \o sta \o <<95>> \o loc \o <<95>> \o band \o <<95>>
    \o source \o <<95>> \o subsource

IdentifierText(form, net, sta, loc, band, source, subsource) ==
    CASE form = "plain" ->
            <<70, 68, 83, 78, 58>> \o JoinParts(net, sta, loc, band, source, subsource)
      [] form = "no_prefix" -> JoinParts(net, sta, loc, band, source, subsource)
      [] form = "lower_prefix" ->
            <<102, 100, 115, 110, 58>> \o JoinParts(net, sta, loc, band, source, subsource)
      [] form = "extra_part" ->
            <<70, 68, 83, 78, 58>> \o JoinParts(net, sta, loc, band, source, subsource)
            \o <<95, 88>>
      [] form = "no_subsource" ->
            <<70, 68, 83, 78, 58>> \o net \o <<95>> \o sta \o <<95>> \o loc
            \o <<95>> \o band \o <<95>> \o source
      [] form = "accent" ->
            <<70, 68, 83, 78, 58>> \o JoinParts(net, sta, loc, band, source, subsource)
            \o <<195, 169>>

InitIdent ==
    /\ pc = "ident_start"
    /\ samples = NoValue /\ frames = NoValue
    /\ frame_block = NoValue /\ rt_data = NoValue /\ declared = NoValue
    /\ by_four = NoValue /\ chunk = NoValue
    /\ rec = NoValue /\ out = NoValue /\ ret = NoValue /\ rd = NoValue
    /\ \E form \in TextForms, net \in NetTexts, sta \in StaTexts, loc \in LocTexts,
          band \in BandTexts, source \in SourceTexts, subsource \in SubsourceTexts :
          stream = IdentifierText(form, net, sta, loc, band, source, subsource)
    /\ build \in Builds
    /\ instant = NoValue

FromText ==
    /\ pc = "ident_start"
    /\ rec' = SourceIdentifier_from(stream)
    /\ pc' = "identified"
    /\ UNCHANGED <<out, ret, stream, rd, steimVars, build, instant>>

Measure ==
    /\ pc = "identified"
    /\ out' = SourceIdentifier_as_bytes(rec)
    /\ ret' = [to_string |-> SourceIdentifier_to_string(rec),
               calc_len  |-> SourceIdentifier_calc_len(rec)]
    /\ pc' = "measured"
    /\ UNCHANGED <<rec, stream, rd, steimVars, build, instant>>

NextIdent == FromText \/ Measure

SpecIdent == InitIdent /\ [][NextIdent]_vars

(***************************************************************************)
(* Properties of the identifier scenario (SpecIdent)                       *)
(***************************************************************************)
IsAZ09(c) == c \in 65..90 \cup 48..57
\* the bytes of s from position a to position b are all of [A-Z0-9], with the
\* dash too when dash is TRUE, and there are from lo to hi of them
PartMatches(s, a, b, dash, lo, hi) ==
    /\ b - a + 1 >= lo /\ b - a + 1 <= hi
    /\ \A i \in a..b : IsAZ09(s[i]) \/ (dash /\ s[i] = 45)

\* s is FDSN: followed by net, sta, loc, band, source and subsource with an
\* underscore between each two: net 1-8 of [A-Z0-9], sta 1-8 and loc 0-8 of
\* [-A-Z0-9], band any number, source one or more, subsource any number of
\* [A-Z0-9]
MatchesGrammar(s) ==
    /\ Len(s) >= 5
    /\ SubSeq(s, 1, 5) = <<70, 68, 83, 78, 58>>
    /\ LET us == {i \in 6..Len(s) : s[i] = 95} IN
       \E p1 \in us :
          /\ PartMatches(s, 6, p1 - 1, FALSE, 1, 8)
          /\ \E p2 \in {u \in us : u > p1} :
             /\ PartMatches(s, p1 + 1, p2 - 1, TRUE, 1, 8)
             /\ \E p3 \in {u \in us : u > p2} :
                /\ PartMatches(s, p2 + 1, p3 - 1, TRUE, 0, 8)
                /\ \E p4 \in {u \in us : u > p3} :
                   /\ PartMatches(s, p3 + 1, p4 - 1, FALSE, 0, Len(s))
                   /\ \E p5 \in {u \in us : u > p4} :
                      /\ PartMatches(s, p4 + 1, p5 - 1, FALSE, 1, Len(s))
                      /\ PartMatches(s, p5 + 1, Len(s), FALSE, 0, Len(s))

\* C17: the source identifier is lossless.  SourceIdentifier::from(s) is the
\* Fdsn variant exactly when s matches the FDSN grammar and Raw(s) otherwise,
\* and in both cases to_string() and as_bytes() give back s.
C17_IdentifierLossless ==
    /\ pc \in {"identified", "measured"}
       => /\ rec.kind = "Fdsn" <=> MatchesGrammar(stream)
          /\ rec.kind # "Fdsn" => rec = Raw(stream)
    /\ pc = "measured"
       => /\ ret.to_string = stream
          /\ out = stream

\* a text with dashes in station and location and an empty band was taken as
\* Fdsn and measured
C17_Witness ==
    /\ pc = "measured"
    /\ rec.kind = "Fdsn"
    /\ rec.f.station = <<65, 45, 66>> /\ rec.f.location = <<45>> /\ rec.f.band = <<>>
    /\ out = stream

\* C18: calc_len() is the number of bytes as_bytes() returns; for the Fdsn
\* variant that is 10 plus the lengths of the six components, for every
\* identifier the grammar accepts, however long band, source and subsource.
C18_CalcLenIsByteLength ==
    pc = "measured"
    => /\ ret.calc_len = Len(out)
       /\ rec.kind = "Fdsn"
          => ret.calc_len = 10 + Len(rec.f.network) + Len(rec.f.station)
                            + Len(rec.f.location) + Len(rec.f.band)
                            + Len(rec.f.source) + Len(rec.f.subsource)

(***************************************************************************)
(* More properties of the Steim-1 scenario (SpecSteim)                     *)
(***************************************************************************)
\* the sixteen two-bit tags of a nibble word, c(0) in the two highest bits
TagAt(nibbles, k) == U32ShrAnd3(nibbles, 30 - 2 * k)
\* the bytes of the encoded block
BlockBytes == get_encoded_data(frame_block)
\* data word w(i) of the frame at offset as a signed 32-bit value
WordAt(bytes, offset, i) ==
    U32ToI32(U32FromBE(Slice(bytes, offset + 4 * i, offset + 4 * i + 4)))

\* C21: encode of a single sample.  encode([x], F) returns for every F exactly
\* one frame whose sixteen tags are all 0, with w(1) = x and w(2) = x and
\* num_samples = 1, and decode of its 64 bytes with N = 1 returns [x].
C21_SingleSample ==
    (pc \in {"steim_encoded", "steim_decoded"} /\ Len(samples) = 1)
    => /\ frame_block.kind = "Ok"
       /\ Len(frame_block.steim_frame) = 1
       /\ Len(BlockBytes) = 64
       /\ \A k \in 0..15 : TagAt(U32FromBE(Slice(BlockBytes, 0, 4)), k) = 0
       /\ WordAt(BlockBytes, 0, 1) = samples[1]
       /\ WordAt(BlockBytes, 0, 2) = samples[1]
       /\ \A i \in 3..15 : WordAt(BlockBytes, 0, i) = 0
       /\ frame_block.num_samples = 1
       /\ pc = "steim_decoded" => rt_data = [kind |-> "Ok", samples |-> samples]

\* the single sample -32768 was encoded with a frame limit and decoded
C21_Witness ==
    /\ pc = "steim_decoded"
    /\ samples = <<-32768>>
    /\ frames = 2
    /\ rt_data = [kind |-> "Ok", samples |-> <<-32768>>]

\* the differences the tags of a nibble word stand for: four for each tag 1,
\* two for each tag 2, one for each tag 3
RECURSIVE ImpliedDiffs(_, _)
ImpliedDiffs(nibbles, k) ==
    IF k > 15 THEN 0
    ELSE (CASE TagAt(nibbles, k) = 1 -> 4
            [] TagAt(nibbles, k) = 2 -> 2
            [] TagAt(nibbles, k) = 3 -> 1
            [] OTHER -> 0) + ImpliedDiffs(nibbles, k + 1)

RECURSIVE BlockImpliedDiffs(_, _)
BlockImpliedDiffs(fs, i) ==
    IF i > Len(fs) THEN 0
    ELSE ImpliedDiffs(fs[i].nibbles, 0) + BlockImpliedDiffs(fs, i + 1)

\* C24: encode never pads a data word.  For every input, 1 plus the number
\* of differences the emitted tags stand for (4 for a tag-1 word, 2 for a
\* tag-2 word, 1 for a tag-3 word) is frame_block.num_samples, also when the
\* input ends with 1, 2 or 3 pending differences that each fit 8 bits.
C24_NoPaddedWord ==
    (pc = "steim_encoded" /\ frame_block.kind = "Ok")
    => 1 + BlockImpliedDiffs(frame_block.steim_frame, 1) = frame_block.num_samples

\* C25: integration constants of every encode result.  Whenever encode
\* returns Ok, the block has at least one frame, num_samples is from 1 to the
\* length of the input, the tags c(0), c(1) and c(2) of frame 0 are 0, w(1)
\* of frame 0 is the first sample and w(2) of frame 0 is the sample at
\* num_samples - 1, the last one packed, also when samples were dropped.
C25_IntegrationConstants ==
    (pc = "steim_encoded" /\ frame_block.kind = "Ok")
    => /\ Len(frame_block.steim_frame) >= 1
       /\ frame_block.num_samples >= 1
       /\ frame_block.num_samples <= Len(samples)
       /\ \A k \in 0..2 : TagAt(U32FromBE(Slice(BlockBytes, 0, 4)), k) = 0
       /\ WordAt(BlockBytes, 0, 1) = samples[1]
       /\ WordAt(BlockBytes, 0, 2) = samples[frame_block.num_samples]

(***************************************************************************)
(* Packer scenario: draw the words of an input from ByFours one by one     *)
(***************************************************************************)
InitPack ==
    /\ pc = "packing"
    /\ samples \in SteimInputs \ {<<>>}
    /\ frames = NoValue /\ frame_block = NoValue
    /\ rt_data = NoValue /\ declared = NoValue
    /\ by_four = ByFours_new(diff_iter(samples))
    /\ chunk = NoValue
    /\ rec = NoValue /\ out = NoValue /\ ret = NoValue
    /\ stream = NoValue /\ rd = NoValue
    /\ build \in Builds
    /\ instant = NoValue

\* one call of by_four.next(); None ends the iteration
NextWord ==
    /\ pc = "packing"
    /\ chunk' = ByFours_next(by_four).item
    /\ by_four' = ByFours_next(by_four).it
    /\ pc' = IF ByFours_next(by_four).item = NoValue THEN "packed" ELSE "packing"
    /\ UNCHANGED <<samples, frames, frame_block, rt_data, declared, recordVars,
                   build, instant>>

NextPack == NextWord

SpecPack == InitPack /\ [][NextPack]_vars

(***************************************************************************)
(* Properties of the packer scenario (SpecPack)                            *)
(***************************************************************************)
\* the differences not yet packed, in order
Pending == by_four.prev \o by_four.diff_iter

FitsI8(d) == d >= -128 /\ d <= 127
FitsI16(d) == d >= -32768 /\ d <= 32767

\* the atom the selection rule names for the pending differences p
RuleAtom(p) ==
    IF Len(p) >= 4 /\ \A i \in 1..4 : FitsI8(p[i])
    THEN [kind |-> "Four", v |-> SubSeq(p, 1, 4)]
    ELSE IF Len(p) >= 2 /\ FitsI16(p[1]) /\ FitsI16(p[2])
    THEN [kind |-> "Two", v |-> SubSeq(p, 1, 2)]
    ELSE [kind |-> "One", v |-> SubSeq(p, 1, 1)]

\* C23: atom selection.  At every packing step after the first sample, if the
\* next four pending differences all fit 8 bits the encoder emits one tag-1
\* word that consumes four; else if the next two both fit 16 bits it emits
\* one tag-2 word that consumes two, also when exactly two differences are
\* left at the end of the input; else it emits one tag-3 word that consumes
\* one.  (Steps with exactly three pending differences that all fit 8 bits
\* are left out here: they are the trailing group of C24.)
C23_AtomSelection ==
    [][(/\ pc = "packing"
        /\ ~by_four.first
        /\ Len(Pending) > 0
        /\ ~(Len(Pending) = 3 /\ \A i \in 1..3 : FitsI8(Pending[i])))
       => /\ chunk' = RuleAtom(Pending)
          /\ Pending' = Drop(Pending, Len(RuleAtom(Pending).v))]_vars

(***************************************************************************)
(* More properties of the decoder scenario (SpecDecode)                    *)
(***************************************************************************)
SignedByte(b) == IF b >= 128 THEN b - 256 ELSE b
SignedPair(hi, lo) == IF hi >= 128 THEN 256 * hi + lo - 65536 ELSE 256 * hi + lo

\* the differences slot i of the frame at offset stands for, by its tag c(i)
SlotDiffs(bytes, offset, i) ==
    LET tag == TagAt(U32FromBE(Slice(bytes, offset, offset + 4)), i)
        at(n) == bytes[offset + 4 * i + n + 1]
    IN  CASE tag = 1 -> <<SignedByte(at(0)), SignedByte(at(1)),
                          SignedByte(at(2)), SignedByte(at(3))>>
          [] tag = 2 -> <<SignedPair(at(0), at(1)), SignedPair(at(2), at(3))>>
          [] tag = 3 -> <<WordAt(bytes, offset, i)>>
          [] OTHER   -> <<>>

\* the differences of all the slots from slot i of frame f on, in slot order
RECURSIVE DiffsInOrder(_, _, _)
DiffsInOrder(bytes, f, i) ==
    IF 64 * f >= Len(bytes) THEN <<>>
    ELSE IF i > 15 THEN DiffsInOrder(bytes, f + 1, 1)
    ELSE SlotDiffs(bytes, 64 * f, i) \o DiffsInOrder(bytes, f, i + 1)

RECURSIVE RunningSums(_, _, _)
RunningSums(last, ds, i) ==
    IF i > Len(ds) THEN <<>>
    ELSE <<last + ds[i]>> \o RunningSums(last + ds[i], ds, i + 1)

\* X(0) followed by the running sums of the differences
TagSemanticsSamples ==
    <<StreamX0>> \o RunningSums(StreamX0, DiffsInOrder(stream, 0, 1), 1)

\* C22: decode follows the tag semantics slot by slot.  For every frame and
\* every slot i in 1..15, tag 1 stands for the four signed 8-bit values in
\* the 4 bytes of slot i itself, tag 2 for the two big-endian signed 16-bit
\* values of slot i, tag 3 for the one big-endian signed 32-bit value of slot
\* i and tag 0 for nothing (X(0) and X(N-1) in slots 1 and 2 of frame 0); the
\* output is X(0) followed by the running sums of these differences in slot
\* order.  (Stated for slices of whole frames whose frame 0 has the tags
\* c(0) = c(1) = c(2) = 0, whose samples are as many as declared and end with
\* X(N-1).)
C22_TagSemantics ==
    (/\ pc = "bytes_decoded"
     /\ Len(stream) > 0 /\ Len(stream) % 64 = 0
     /\ \A k \in 0..2 : TagAt(U32FromBE(Slice(stream, 0, 4)), k) = 0
     /\ Len(TagSemanticsSamples) = declared
     /\ TagSemanticsSamples[Len(TagSemanticsSamples)] = StreamXN)
    => rt_data = [kind |-> "Ok", samples |-> TagSemanticsSamples]

(***************************************************************************)
(* Extra headers (extra_headers.rs)                                        *)
(***************************************************************************)
FDSN_EXTRA_HEADERS == <<70, 68, 83, 78>>

\* Map::get
RECURSIVE Map_get_from(_, _, _)
Map_get_from(m, k, i) ==
    IF i > Len(m) THEN NoValue
    ELSE IF m[i][1] = k THEN Some(m[i][2])
    ELSE Map_get_from(m, k, i + 1)

Map_get(m, k) == Map_get_from(m, k, 1)

\* From<String>: the text is kept, the map is an empty placeholder
ExtraHeaders_from(s) == [raw_str |-> Some(s), map |-> Map_new]

is_parsed(eh) == eh.raw_str.kind # "Some"

UnitOk == [kind |-> "Ok"]

\* parse(&mut self): the value after the call and what the call returned;
\* raw_str is set to None before the text is parsed
ExtraHeaders_parse(eh) ==
    IF eh.raw_str.kind = "Some"
    THEN LET v == Json_from_str(eh.raw_str.v) IN
         IF v.kind = "Err"
         THEN [eh |-> [eh EXCEPT !.raw_str = NoValue], result |-> v]
         ELSE IF v.v.t = "obj"
         THEN [eh |-> [raw_str |-> NoValue, map |-> v.v.m], result |-> UnitOk]
         ELSE [eh |-> [eh EXCEPT !.raw_str = NoValue],
               result |-> [kind |-> "Err", err |-> "ExtraHeaderNotObject",
                           args |-> <<v.v>>]]
    ELSE [eh |-> eh, result |-> UnitOk]

FdsnIsObject(m) ==
    IF Map_get(m, FDSN_EXTRA_HEADERS).kind = "Some"
    THEN IF Map_get(m, FDSN_EXTRA_HEADERS).v.t = "obj"
         THEN UnitOk
         ELSE [kind |-> "Err", err |-> "ExtraHeaderParse", args |-> <<>>]
    ELSE UnitOk

\* a validate that returns what parse returned
ExtraHeaders_validate_parse_only(eh) == ExtraHeaders_parse(eh)

\* validate(&mut self): parse()?, then the FDSN key
ExtraHeaders_validate(eh) ==
    IF ExtraHeaders_parse(eh).result.kind = "Err"
    THEN ExtraHeaders_parse(eh)
    ELSE [eh |-> ExtraHeaders_parse(eh).eh,
          result |-> FdsnIsObject(ExtraHeaders_parse(eh).eh.map)]

\* Display: the raw text, or "{" then "key":value for every entry then "}"
RECURSIVE Display_members(_, _)
Display_members(m, i) ==
    IF i > Len(m) THEN <<>>
    ELSE <<34>> \o m[i][1] \o <<34, 58>> \o Json_to_string(m[i][2])
         \o Display_members(m, i + 1)

ExtraHeaders_to_string(eh) ==
    IF eh.raw_str.kind = "Some" THEN eh.raw_str.v
    ELSE <<123>> \o Display_members(eh.map, 1) \o <<125>>

\* the texts an ExtraHeaders is made from
ExtraTexts ==
    {
      <<123, 125>>,  \* {}
      <<123, 34, 97, 34, 58, 49, 125>>,  \* {"a":1}
      <<123, 34, 97, 34, 58, 49, 44, 34, 98, 34, 58, 50, 125>>,  \* {"a":1,"b":2}
      <<123, 34, 97, 34, 58, 49, 44, 34, 98, 34, 58, 34, 115, 34, 44, 34, 99, 34, 58, 110, 117, 108, 108, 125>>,  \* {"a":1,"b":"s","c":null}
      <<123, 34, 70, 68, 83, 78, 34, 58, 123, 125, 125>>,  \* {"FDSN":{}}
      <<123, 34, 70, 68, 83, 78, 34, 58, 123, 34, 120, 34, 58, 49, 125, 44, 34, 97, 34, 58, 50, 125>>,  \* {"FDSN":{"x":1},"a":2}
      <<123, 34, 70, 68, 83, 78, 34, 58, 49, 125>>,  \* {"FDSN":1}
      <<123, 34, 70, 68, 83, 78, 34, 58, 34, 115, 34, 125>>,  \* {"FDSN":"s"}
      <<123, 34, 70, 68, 83, 78, 34, 58, 110, 117, 108, 108, 44, 34, 97, 34, 58, 49, 125>>,  \* {"FDSN":null,"a":1}
      <<49>>,  \* 1
      <<34, 115, 34>>,  \* "s"
      <<110, 117, 108, 108>>,  \* null
      <<>>,  \* (empty)
      <<123>>,  \* {
      <<123, 34, 97, 34, 125>>,  \* {"a"}
      <<120>>  \* x
    }

\* rec is the ExtraHeaders, stream the text it was made from, ret the calls
\* made on it with their results, out its to_string(), rd that text parsed
InitExtra ==
    /\ pc = "extra_made"
    /\ stream \in ExtraTexts
    /\ rec = ExtraHeaders_from(stream)
    /\ ret = <<>>
    /\ out = NoValue /\ rd = NoValue
    /\ samples = NoValue /\ frames = NoValue /\ frame_block = NoValue
    /\ rt_data = NoValue /\ declared = NoValue
    /\ by_four = NoValue /\ chunk = NoValue
    /\ build \in Builds
    /\ instant = NoValue

MaxCalls == 2

ParseExtra ==
    /\ pc \in {"extra_made", "extra_called"}
    /\ Len(ret) < MaxCalls
    /\ rec' = ExtraHeaders_parse(rec).eh
    /\ ret' = Append(ret, [call |-> "parse", result |-> ExtraHeaders_parse(rec).result])
    /\ pc' = "extra_called"
    /\ UNCHANGED <<out, stream, rd, steimVars, build, instant>>

ValidateExtra ==
    /\ pc \in {"extra_made", "extra_called"}
    /\ Len(ret) < MaxCalls
    /\ rec' = ExtraHeaders_validate(rec).eh
    /\ ret' = Append(ret, [call |-> "validate",
                           result |-> ExtraHeaders_validate(rec).result])
    /\ pc' = "extra_called"
    /\ UNCHANGED <<out, stream, rd, steimVars, build, instant>>

ShowExtra ==
    /\ pc \in {"extra_made", "extra_called"}
    /\ out' = ExtraHeaders_to_string(rec)
    /\ pc' = "extra_shown"
    /\ UNCHANGED <<rec, ret, stream, rd, steimVars, build, instant>>

ReparseExtra ==
    /\ pc = "extra_shown"
    /\ rd' = Json_from_str(out)
    /\ pc' = "extra_reparsed"
    /\ UNCHANGED <<rec, out, ret, stream, steimVars, build, instant>>

NextExtra == ParseExtra \/ ValidateExtra \/ ShowExtra \/ ReparseExtra

SpecExtra == InitExtra /\ [][NextExtra]_vars

\* C26: the text to_string() gives for a parsed ExtraHeaders parses back to
\* the object the ExtraHeaders holds, for any number of keys
C26_ToStringRoundTrip ==
    (pc = "extra_reparsed" /\ is_parsed(rec))
    => rd = [kind |-> "Ok", v |-> JObj(rec.map)]

CallFailed(i) == ret[i].result.kind = "Err"

\* what validate has to return for the text the value was made from
ExpectedValidate ==
    IF Json_from_str(stream).kind = "Err" THEN "JsonError"
    ELSE IF Json_from_str(stream).v.t # "obj" THEN "ExtraHeaderNotObject"
    ELSE IF /\ Map_get(Json_from_str(stream).v.m, FDSN_EXTRA_HEADERS).kind = "Some"
            /\ Map_get(Json_from_str(stream).v.m, FDSN_EXTRA_HEADERS).v.t # "obj"
    THEN "ExtraHeaderParse"
    ELSE "Ok"

C28_FailedParseKeepsValue ==
    (pc = "extra_called" /\ ret[1].call = "parse" /\ CallFailed(1))
    => /\ rec.raw_str = Some(stream)
       /\ ~is_parsed(rec)
       /\ \A i \in 2..Len(ret) : CallFailed(i)

(***************************************************************************)
(* Sequence scenario: two accepted records one after the other in a        *)
(* reader, read with from_reader call by call                              *)
(***************************************************************************)
\* from_reader when the header read, take(40).read(&mut buffer), delivers
\* the first n bytes only: the rest of the array stays zero and the reads
\* that follow start after the n bytes
from_reader_delivering(bytes, n, profile) ==
    from_reader(Take(bytes, n)
                \o Repeat(0, FIXED_HEADER_SIZE - Min(n, Len(bytes)))
                \o Drop(bytes, n),
                profile)

\* the bytes one read call for the header can deliver: all 40, or the 12 or
\* the 1 that a BufReader still holds in its buffer when the call starts
HeaderBytesDelivered == {FIXED_HEADER_SIZE, 12, 1}

SeqCodes == {0, 1}
SeqIds == {<<>>, <<70, 68, 83, 78, 58, 88, 95, 83, 95, 95, 66, 95, 72, 95, 90>>}
\* "", "{", "{}" and {"a":1}: extra headers of 0, 1, 2 and 7 bytes
SeqExtras == {<<>>, <<123>>, <<123, 125>>, <<123, 34, 97, 34, 58, 49, 125>>}
SeqData == {<<>>, <<17, 33>>}

\* rec holds the two records as they were put in the reader, stream what the
\* reader still holds, rd the calls made and what they returned
InitSeq ==
    /\ pc = "seq_start"
    /\ build \in Builds
    /\ \E code1 \in SeqCodes, code2 \in SeqCodes, id1 \in SeqIds,
          eh1 \in SeqExtras, eh2 \in {<<123>>, <<123, 34, 97, 34, 58, 49, 125>>},
          data1 \in SeqData :
          rec = <<WireRecord(code1, U32(Len(data1) \div 2), id1, eh1, data1, "whole"),
                  WireRecord(code2, U32(1), <<>>, eh2, <<17, 33>>, "whole")>>
    /\ from_reader(rec[1], build).kind = "Ok"
    /\ from_reader(rec[2], build).kind = "Ok"
    /\ stream = rec[1] \o rec[2]
    /\ rd = <<>>
    /\ out = NoValue /\ ret = NoValue
    /\ samples = NoValue /\ frames = NoValue /\ frame_block = NoValue
    /\ rt_data = NoValue /\ declared = NoValue
    /\ by_four = NoValue /\ chunk = NoValue
    /\ instant = NoValue

\* what a call returned, without the reader
Returned(u) ==
    IF u.kind = "Ok" THEN [kind |-> "Ok", rec |-> u.rec] ELSE u

\* UnparsedMSeed3Record::from_reader on the reader; the first call finds a
\* reader that delivers the whole header
ReadUnparsed ==
    /\ pc = "seq_start"
    /\ Len(rd) < Len(rec)
    /\ \E n \in (IF Len(rd) = 0 THEN {FIXED_HEADER_SIZE} ELSE HeaderBytesDelivered) :
          /\ rd' = Append(rd, [call |-> "unparsed", delivered |-> n,
                               result |-> Returned(from_reader_delivering(stream, n, build))])
          /\ stream' = IF from_reader_delivering(stream, n, build).kind = "Ok"
                       THEN from_reader_delivering(stream, n, build).rest
                       ELSE stream
          /\ pc' = IF from_reader_delivering(stream, n, build).kind = "Ok"
                   THEN "seq_start" ELSE "seq_failed"
    /\ UNCHANGED <<rec, out, ret, steimVars, build, instant>>

\* MSeed3Record::from_reader: parse_headers(UnparsedMSeed3Record::from_reader(..)?)
ReadRecord ==
    /\ pc = "seq_start"
    /\ Len(rd) < Len(rec)
    /\ \E n \in (IF Len(rd) = 0 THEN {FIXED_HEADER_SIZE} ELSE HeaderBytesDelivered) :
          /\ rd' = Append(rd, [call |-> "record", delivered |-> n,
                               result |-> IF from_reader_delivering(stream, n, build).kind = "Ok"
                                          THEN parse_headers(from_reader_delivering(stream, n, build).rec)
                                          ELSE from_reader_delivering(stream, n, build)])
          /\ stream' = IF from_reader_delivering(stream, n, build).kind = "Ok"
                       THEN from_reader_delivering(stream, n, build).rest
                       ELSE stream
          /\ pc' = IF from_reader_delivering(stream, n, build).kind = "Ok"
                   THEN "seq_start" ELSE "seq_failed"
    /\ UNCHANGED <<rec, out, ret, steimVars, build, instant>>

NextSeq == ReadUnparsed \/ ReadRecord

SpecSeq == InitSeq /\ [][NextSeq]_vars

\* the bytes of the records after the first k
RECURSIVE RecordsFrom(_, _)
RecordsFrom(records, k) ==
    IF k >= Len(records) THEN <<>>
    ELSE records[k + 1] \o RecordsFrom(records, k + 1)

\* the length the header of a returned record gives for the whole record
RecordLength(h) ==
    FIXED_HEADER_SIZE + raw_identifier_length(h) + raw_extra_headers_length(h)
    + h.data_length[1] * 65536 + h.data_length[2]

\* C30: sequential reads stay aligned.  The i-th from_reader on a reader that
\* holds two accepted records returns the i-th record, as a read of that
\* record alone returns it, and leaves in the reader exactly the records
\* after it: it consumed 40 + identifier_length + extra_headers_length +
\* data_length bytes, also when extra_headers_length is 1 or 2.
C30_SequentialReads ==
    /\ \A i \in 1..Len(rd) :
          /\ rd[i].result.kind = "Ok"
          /\ rd[i].result = IF rd[i].call = "record"
                            THEN Record_from_reader(rec[i], build)
                            ELSE Returned(from_reader(rec[i], build))
          /\ RecordLength(rd[i].result.rec.header) = Len(rec[i])
    /\ pc = "seq_start" => stream = RecordsFrom(rec, Len(rd))

\* the same for readers whose header read delivers all 40 bytes
SequentialReadsWholeHeader ==
    (\A i \in 1..Len(rd) : rd[i].delivered = FIXED_HEADER_SIZE) => C30_SequentialReads

\* two records were read and the first had one or two extra-header bytes
SequentialReadsWitness ==
    /\ Len(rd) = 2
    /\ rd[1].result.kind = "Ok" /\ rd[2].result.kind = "Ok"
    /\ raw_extra_headers_length(rd[1].result.rec.header) \in {1, 2}
    /\ stream = <<>>

=============================================================================
